---- MODULE Spec2Model ----
(***************************************************************************)
(* Nexus: the constrained packing optimizer (KnapsackOptimizer.solve) and  *)
(* the pack / pack_and_explain flows of NexusPipeline that drive it        *)
(* (specification Spec); the ingest and ingest_batch flows (SpecIngest);   *)
(* the search flow behind POST /search (SpecSearch) and the synthesizer's  *)
(* parsing of the LLM's answer (SpecParsePlan); the concurrent             *)
(* ContextExtractor.extract_batch (SpecExtractBatch).                      *)
(*                                                                         *)
(* Numbers.  weight_grams and max_weight_grams are Python floats; they are *)
(* held here as integers counting 1/GramParts of a gram, so 1009 is        *)
(* 10.09 g.  similarity_score is held in units of 1/ScoreParts, so 24995   *)
(* is 0.24995.  int(v * SCALE) on a non-negative float is the integer part *)
(* of the product, i.e. (parts * SCALE) \div GramParts.                    *)
(***************************************************************************)
EXTENDS Integers, Sequences, FiniteSets, TLC

\* ------------------------------------------------------------- bounds
MaxItems == 2          \* longest candidate list handed to solve
MaxQty == 2            \* largest quantity_owned of a candidate
ManyItems == 12        \* length of the long candidate lists of pack_and_explain
MaxBatch == 2          \* longest list handed to ingest_batch or extract_batch
MaxListed == 2         \* most entries in a list of the LLM's answer

\* ---------------------------------------------------------- constants
GramParts == 100       \* resolution of the float weights (parts per gram)
SCALE == 10
SCORE_SCALE == 10000
ScoreParts == 100000   \* resolution of the float scores (parts per 1.0)
EPSILON == 100         \* 0.001, in units of 1/ScoreParts

\* ------------------------------------------------------------ helpers
Min(a, b) == IF a <= b THEN a ELSE b

Range(s) == {s[k] : k \in 1..Len(s)}

RECURSIVE SumOver(_, _)
\* sum(f[i] for i in S)
SumOver(S, f) ==
  IF S = {} THEN 0
  ELSE LET i == CHOOSE j \in S : TRUE IN f[i] + SumOver(S \ {i}, f)

RECURSIVE Concat(_)
\* the concatenation of a sequence of sequences
Concat(ss) == IF ss = <<>> THEN <<>> ELSE Head(ss) \o Concat(Tail(ss))

\* ------------------------------------------------------ data structures
\* What the store knows of an item id for the query at hand: the category
\* and tags of its context and the similarity the search gave it.
ItemIds == {"a", "b"}

Catalog ==
  [id \in ItemIds |->
     IF id = "a"
     THEN [category |-> "medical", semantic_tags |-> <<"warmth">>,
           similarity_score |-> 50000]
     ELSE [category |-> "clothing", semantic_tags |-> <<>>,
           similarity_score |-> 24995]]

\* 10.00 g, 10.09 g and 20.00 g
Weights == {1000, 1009, 2000}

PackableItem ==
  {[item_id |-> id,
    similarity_score |-> Catalog[id].similarity_score,
    weight_grams |-> w,
    quantity_owned |-> q,
    category |-> Catalog[id].category,
    semantic_tags |-> Catalog[id].semantic_tags] :
     id \in ItemIds, w \in Weights, q \in 1..MaxQty}

\* Candidate lists: inventory and weight_overrides are keyed by item_id, so
\* two candidates with one id carry one weight and one quantity.
ItemLists ==
  {l \in UNION {[1..n -> PackableItem] : n \in 0..MaxItems} :
     \A i, j \in 1..Len(l) : l[i].item_id = l[j].item_id => l[i] = l[j]}

\* Long candidate lists, longer than the cap on the unpacked items shown to
\* the synthesizer: one "a" at the head or at the tail, "b" everywhere else,
\* 10.00 g each and one unit owned.
LongItem(id) ==
  [item_id |-> id,
   similarity_score |-> Catalog[id].similarity_score,
   weight_grams |-> 1000,
   quantity_owned |-> 1,
   category |-> Catalog[id].category,
   semantic_tags |-> Catalog[id].semantic_tags]

LongLists ==
  {[k \in 1..ManyItems |-> IF k = j THEN LongItem("a") ELSE LongItem("b")] :
     j \in {1, ManyItems}}

\* max_per_item is Optional[int]: {} is None, {n} is n.
\* The three dicts are sequences of <<key, value>> pairs with distinct keys,
\* in insertion order (the order Python iterates them in).
Constraints(mw, cmin, cmax, tmin, mpi, pins) ==
  [max_weight_grams |-> mw,
   category_minimums |-> cmin,
   category_maximums |-> cmax,
   tag_minimums |-> tmin,
   max_per_item |-> mpi,
   pinned_items |-> pins]

PackingConstraints ==
  {Constraints(mw, cmin, cmax, tmin, mpi, pins) :
     mw \in {500, 2000},
     cmin \in {<<>>, << <<"medical", 2>> >>},
     cmax \in {<<>>, << <<"medical", 1>> >>},
     tmin \in {<<>>, << <<"warmth", 2>> >>},
     mpi \in {{}, {1}},
     pins \in {<<>>, <<"a">>, <<"z", "a">>}}

PresetNames ==
  {"carry_on_luggage", "checked_bag", "drone_delivery", "medical_relief",
   "hiking_day_trip", "bug_out_bag"}

CONSTRAINT_PRESETS ==
  [p \in PresetNames |->
     CASE p = "carry_on_luggage" ->
            Constraints(7000 * GramParts, << <<"clothing", 2>> >>, <<>>, <<>>,
                        {}, <<>>)
       [] p = "checked_bag" ->
            Constraints(23000 * GramParts, << <<"clothing", 3>> >>, <<>>, <<>>,
                        {}, <<>>)
       [] p = "drone_delivery" ->
            Constraints(5000 * GramParts, << <<"medical", 2>> >>, <<>>,
                        << <<"wound_care", 1>>, <<"warmth", 1>> >>, {2}, <<>>)
       [] p = "medical_relief" ->
            Constraints(30000 * GramParts,
                        << <<"medical", 5>>, <<"camping", 2>>, <<"clothing", 2>> >>,
                        <<>>,
                        << <<"wound_care", 2>>, <<"warmth", 2>>, <<"sterile", 1>> >>,
                        {}, <<>>)
       [] p = "hiking_day_trip" ->
            Constraints(10000 * GramParts, << <<"medical", 1>> >>, <<>>,
                        << <<"first_aid", 1>> >>, {}, <<>>)
       [] OTHER ->
            Constraints(15000 * GramParts,
                        << <<"medical", 2>>, <<"tech", 1>>, <<"camping", 2>>,
                           <<"clothing", 1>> >>,
                        <<>>,
                        << <<"warmth", 1>>, <<"wound_care", 1>>,
                           <<"navigation", 1>> >>,
                        {}, <<>>)]

\* A line of relaxed_constraints.  The text of each note is fixed by its kind;
\* the fields are the values the f-string prints (0 where the kind prints
\* none).
Note(kind, name, need, eff, avail) ==
  [kind |-> kind, name |-> name, need |-> need, eff |-> eff, avail |-> avail]

InfeasibleNote == Note("infeasible", "", 0, 0, 0)

\* ------------------------------------------------- solve: the CP model
\* Upper with max_per_item forgotten
UpperIgnoringMaxPerItem(item, c) == item.quantity_owned

\* upper bound of x_i
Upper(item, c) ==
  IF c.max_per_item = {} THEN item.quantity_owned
  ELSE Min(item.quantity_owned, CHOOSE m \in c.max_per_item : TRUE)

\* int(item.weight_grams * SCALE)
ScaledWeight(item) == (item.weight_grams * SCALE) \div GramParts

\* int(constraints.max_weight_grams * SCALE)
ScaledMax(c) == (c.max_weight_grams * SCALE) \div GramParts

\* int((item.similarity_score + EPSILON) * SCORE_SCALE)
ScaledScore(item) ==
  ((item.similarity_score + EPSILON) * SCORE_SCALE) \div ScoreParts

CategoryIndices(items, cat) ==
  {i \in 1..Len(items) : items[i].category = cat}

TagIndices(items, tag) ==
  {i \in 1..Len(items) : tag \in Range(items[i].semantic_tags)}

PinnedIndices(items, pinned_id) ==
  {i \in 1..Len(items) : items[i].item_id = pinned_id}

\* total_available = sum(items[i].quantity_owned for i in indices)
TotalAvailable(items, indices) ==
  SumOver(indices, [i \in 1..Len(items) |-> items[i].quantity_owned])

\* effective_min = min(minimum, total_available)
EffectiveMin(minimum, total_available) == Min(minimum, total_available)

\* A linear constraint model.Add(sum(x[i] for i in idx) op rhs).
Row(op, idx, rhs) == [op |-> op, idx |-> idx, rhs |-> rhs]

\* the category-minimum loop with its model.Add left out
CategoryMinimumRowsNotAdded(items, c) == <<>>

\* The rows the category-minimum loop adds: one per category that has
\* candidates, at the effective minimum.
CategoryMinimumRows(items, c) ==
  Concat([k \in 1..Len(c.category_minimums) |->
    LET cat == c.category_minimums[k][1]
        minimum == c.category_minimums[k][2]
        indices == CategoryIndices(items, cat)
    IN IF indices = {} THEN <<>>
       ELSE <<Row("ge", indices,
                  EffectiveMin(minimum, TotalAvailable(items, indices)))>>])

\* The notes the category-minimum loop appends to relaxed.
CategoryMinimumNotes(items, c) ==
  Concat([k \in 1..Len(c.category_minimums) |->
    LET cat == c.category_minimums[k][1]
        minimum == c.category_minimums[k][2]
        indices == CategoryIndices(items, cat)
        total_available == TotalAvailable(items, indices)
        effective_min == EffectiveMin(minimum, total_available)
    IN IF indices = {} THEN <<Note("no_category", cat, minimum, 0, 0)>>
       ELSE IF effective_min < minimum
            THEN <<Note("category_relaxed", cat, minimum, effective_min,
                        total_available)>>
            ELSE <<>>])

\* the category-maximum loop with its model.Add left out
CategoryMaximumRowsNotAdded(items, c) == <<>>

\* The rows the category-maximum loop adds.
CategoryMaximumRows(items, c) ==
  Concat([k \in 1..Len(c.category_maximums) |->
    LET cat == c.category_maximums[k][1]
        maximum == c.category_maximums[k][2]
        indices == CategoryIndices(items, cat)
    IN IF indices # {} THEN <<Row("le", indices, maximum)>> ELSE <<>>])

TagMinimumRows(items, c) ==
  Concat([k \in 1..Len(c.tag_minimums) |->
    LET tag == c.tag_minimums[k][1]
        minimum == c.tag_minimums[k][2]
        indices == TagIndices(items, tag)
    IN IF indices = {} THEN <<>>
       ELSE <<Row("ge", indices,
                  EffectiveMin(minimum, TotalAvailable(items, indices)))>>])

TagMinimumNotes(items, c) ==
  Concat([k \in 1..Len(c.tag_minimums) |->
    LET tag == c.tag_minimums[k][1]
        minimum == c.tag_minimums[k][2]
        indices == TagIndices(items, tag)
        total_available == TotalAvailable(items, indices)
        effective_min == EffectiveMin(minimum, total_available)
    IN IF indices = {} THEN <<Note("no_tag", tag, minimum, 0, 0)>>
       ELSE IF effective_min < minimum
            THEN <<Note("tag_relaxed", tag, minimum, effective_min,
                        total_available)>>
            ELSE <<>>])

\* the pinned-items loop with its model.Add left out
PinnedRowsNotAdded(items, c) == <<>>

PinnedRows(items, c) ==
  Concat([k \in 1..Len(c.pinned_items) |->
    LET indices == PinnedIndices(items, c.pinned_items[k])
    IN IF indices # {} THEN <<Row("ge", indices, 1)>> ELSE <<>>])

PinnedNotes(items, c) ==
  Concat([k \in 1..Len(c.pinned_items) |->
    IF PinnedIndices(items, c.pinned_items[k]) # {} THEN <<>>
    ELSE <<Note("pin_missing", c.pinned_items[k], 0, 0, 0)>>])

\* relaxed, as it stands when the solver is called
Relaxed(items, c) ==
  CategoryMinimumNotes(items, c) \o TagMinimumNotes(items, c)
    \o PinnedNotes(items, c)

\* The CpModel solve builds: variable bounds, the weight row, the diversity
\* and pin rows, the objective coefficients.
CpModel(items, c) ==
  [upper |-> [i \in 1..Len(items) |-> Upper(items[i], c)],
   scaled_weights |-> [i \in 1..Len(items) |-> ScaledWeight(items[i])],
   scaled_max |-> ScaledMax(c),
   rows |-> CategoryMinimumRows(items, c) \o CategoryMaximumRows(items, c)
              \o TagMinimumRows(items, c) \o PinnedRows(items, c),
   scaled_scores |-> [i \in 1..Len(items) |-> ScaledScore(items[i])]]

\* ------------------------------------------------------ the CP-SAT solver
RowHolds(row, x) ==
  IF row.op = "ge" THEN SumOver(row.idx, x) >= row.rhs
  ELSE SumOver(row.idx, x) <= row.rhs

Dot(a, b) == SumOver(DOMAIN a, [i \in DOMAIN a |-> a[i] * b[i]])

\* every assignment inside the variable bounds
UpperMax(m) ==
  IF DOMAIN m.upper = {} THEN 0
  ELSE CHOOSE u \in Range(m.upper) : \A v \in Range(m.upper) : v <= u

Assignments(m) ==
  {x \in [DOMAIN m.upper -> 0..UpperMax(m)] :
     \A i \in DOMAIN m.upper : x[i] <= m.upper[i]}

\* the assignments that satisfy every constraint of the model
Solutions(m) ==
  {x \in Assignments(m) :
     /\ Dot(x, m.scaled_weights) <= m.scaled_max
     /\ \A k \in 1..Len(m.rows) : RowHolds(m.rows[k], x)}

Objective(m, x) == Dot(x, m.scaled_scores)

OptimalSolutions(m) ==
  {x \in Solutions(m) : \A y \in Solutions(m) : Objective(m, y) <= Objective(m, x)}

\* What solver.Solve(model) can end with under max_time_in_seconds:
\* OPTIMAL with a maximising assignment; FEASIBLE with whatever solution it
\* held when the time limit struck; INFEASIBLE once it has shown there is no
\* solution; UNKNOWN when the limit struck before either.
NoValues(m) == [i \in DOMAIN m.upper |-> 0]

SolverOutcomes(m) ==
  {[status |-> "OPTIMAL", x |-> x] : x \in OptimalSolutions(m)}
    \cup {[status |-> "FEASIBLE", x |-> x] : x \in Solutions(m)}
    \cup (IF Solutions(m) = {}
          THEN {[status |-> "INFEASIBLE", x |-> NoValues(m)]} ELSE {})
    \cup {[status |-> "UNKNOWN", x |-> NoValues(m)]}

\* ------------------------------------------------ solve: the results
\* PackingResult.  A packed entry keeps the position of its item in the
\* input list (idx): the tuple holds the input object itself.
\* weight_utilization, a float ratio, is held in units of 1/10000.
PackingResult(packed, unpacked, weight, score, utilization, status, relaxed) ==
  [packed_items |-> packed,
   unpacked_items |-> unpacked,
   total_weight_grams |-> weight,
   total_similarity_score |-> score,
   weight_utilization |-> utilization,
   status |-> status,
   relaxed_constraints |-> relaxed]

NoResult == PackingResult(<<>>, <<>>, 0, 0, 0, "none", <<>>)

Positions(items) == [i \in 1..Len(items) |-> i]

\* the early return for an empty item list
EmptyResult == PackingResult(<<>>, <<>>, 0, 0, 0, "infeasible", <<>>)

\* the found branch appending every item to unpacked, packed or not
FoundResultAllUnpacked(items, c, status, x, relaxed) ==
  LET packedAt == SelectSeq(Positions(items), LAMBDA i : x[i] > 0)
      total_weight ==
        SumOver(1..Len(items),
                [i \in 1..Len(items) |-> items[i].weight_grams * x[i]])
      total_score ==
        SumOver(1..Len(items),
                [i \in 1..Len(items) |-> items[i].similarity_score * x[i]])
  IN PackingResult(
       [k \in 1..Len(packedAt) |->
          [idx |-> packedAt[k], item |-> items[packedAt[k]],
           qty |-> x[packedAt[k]]]],
       items,
       total_weight,
       total_score,
       IF c.max_weight_grams > 0
       THEN (total_weight * 10000) \div c.max_weight_grams ELSE 0,
       IF status = "OPTIMAL" THEN "optimal" ELSE "feasible",
       relaxed)

\* the branch status in (OPTIMAL, FEASIBLE)
FoundResult(items, c, status, x, relaxed) ==
  LET packedAt == SelectSeq(Positions(items), LAMBDA i : x[i] > 0)
      unpackedAt == SelectSeq(Positions(items), LAMBDA i : ~(x[i] > 0))
      total_weight ==
        SumOver(1..Len(items),
                [i \in 1..Len(items) |-> items[i].weight_grams * x[i]])
      total_score ==
        SumOver(1..Len(items),
                [i \in 1..Len(items) |-> items[i].similarity_score * x[i]])
  IN PackingResult(
       [k \in 1..Len(packedAt) |->
          [idx |-> packedAt[k], item |-> items[packedAt[k]],
           qty |-> x[packedAt[k]]]],
       [k \in 1..Len(unpackedAt) |-> items[unpackedAt[k]]],
       total_weight,
       total_score,
       IF c.max_weight_grams > 0
       THEN (total_weight * 10000) \div c.max_weight_grams ELSE 0,
       IF status = "OPTIMAL" THEN "optimal" ELSE "feasible",
       relaxed)

\* the else branch returning no unpacked items, as the early return does
NotFoundResultWithoutInput(items, relaxed) ==
  PackingResult(<<>>, <<>>, 0, 0, 0, "infeasible",
                relaxed \o <<InfeasibleNote>>)

\* the else branch: every other solver status
NotFoundResult(items, relaxed) ==
  PackingResult(<<>>, items, 0, 0, 0, "infeasible",
                relaxed \o <<InfeasibleNote>>)

\* ------------------------------------------------------------- state
VARIABLES
  entry,        \* which public operation was called: "solve", "pack_and_explain"
  arg,          \* pack_and_explain's constraints argument, a name or an object
  items,        \* the candidate list solve receives
  constraints,  \* the PackingConstraints solve receives
  pc,           \* position of the call
  cp,           \* the CpModel solve built (rows <<>> before it is built)
  solver,       \* the status solver.Solve ended with ("none" before)
  result,       \* the PackingResult solve returned
  plan,         \* the MissionPlan pack_and_explain returned
  synthCalls,   \* calls of synthesizer.synthesize so far
  synthItems,   \* the item list of the last such call
  outcome,      \* how the public operation ended: "pending", "returned" or
                \* the name of the exception it raised
  embedder,     \* the provider create_embedder() built the pipeline's embedder for
  request,      \* the arguments of the ingest, search, _parse_plan or
                \* extract_batch call
  frame,        \* the local variables of the running call
  calls,        \* the calls made to the pipeline's components, in order
  reply         \* what the caller received

vars == <<entry, arg, items, constraints, pc, cp, solver, result, plan,
          synthCalls, synthItems, outcome, embedder, request, frame, calls,
          reply>>

\* the variables of the pack flows and those of the other flows
packVars == <<arg, items, constraints, cp, solver, result, plan, synthCalls,
              synthItems>>
flowVars == <<embedder, request, frame, calls, reply>>

NoRequest == [kind |-> "none"]
NoFrame == [kind |-> "none"]
NoReply == [kind |-> "none"]

NoModel == CpModel(<<>>, Constraints(0, <<>>, <<>>, <<>>, {}, <<>>))

NoPlan == [source |-> "none", selected_items |-> <<>>, rejected_items |-> <<>>,
           reasoning |-> <<>>, warnings |-> <<>>]

NoArg == [kind |-> "none", name |-> "", object |-> Constraints(0, <<>>, <<>>, <<>>, {}, <<>>)]

\* A constraints argument of pack / pack_and_explain: a preset name, a name
\* that is no preset, or a PackingConstraints object (the object a preset
\* names among them).
NameArg(n) == [kind |-> "name", name |-> n, object |-> NoArg.object]
ObjectArg(c) == [kind |-> "object", name |-> "", object |-> c]

PackArgs ==
  {NameArg(n) : n \in PresetNames \cup {"no_such_preset"}}
    \cup {ObjectArg(CONSTRAINT_PRESETS[n]) : n \in PresetNames}
    \cup {ObjectArg(Constraints(500, <<>>, <<>>, <<>>, {}, pins)) :
            pins \in {<<>>, <<"a">>}}

\* The constraints a long list is packed under: room for no unit, or for one.
LongListArgs ==
  {ObjectArg(Constraints(mw, <<>>, <<>>, <<>>, {}, <<>>)) : mw \in {500, 1000}}

Init ==
  /\ entry \in {"solve", "pack_and_explain"}
  /\ items \in IF entry = "solve" THEN ItemLists ELSE ItemLists \cup LongLists
  /\ IF entry = "solve"
     THEN /\ arg = NoArg
          /\ constraints \in PackingConstraints
          /\ pc = "solve"
     ELSE /\ arg \in IF items \in LongLists THEN LongListArgs ELSE PackArgs
          /\ constraints = NoArg.object
          /\ pc = "pack"
  /\ cp = NoModel
  /\ solver = "none"
  /\ result = NoResult
  /\ plan = NoPlan
  /\ synthCalls = 0
  /\ synthItems = <<>>
  /\ outcome = "pending"
  /\ embedder = "voyage"
  /\ request = NoRequest
  /\ frame = NoFrame
  /\ calls = <<>>
  /\ reply = NoReply

\* Where solve returns to.
AfterSolve == IF entry = "solve" THEN "done" ELSE "explain"
SolveOutcome == IF entry = "solve" THEN "returned" ELSE "pending"

\* ------------------------------------------- KnapsackOptimizer.solve
\* if not items: return PackingResult(... status="infeasible" ...)
SolveEmpty ==
  /\ UNCHANGED flowVars
  /\ pc = "solve"
  /\ items = <<>>
  /\ result' = EmptyResult
  /\ pc' = AfterSolve
  /\ outcome' = SolveOutcome
  /\ UNCHANGED <<entry, arg, items, constraints, cp, solver, plan, synthCalls, synthItems>>

\* The model is built, the solver ends OPTIMAL or FEASIBLE, the values are
\* read back.
SolveFound ==
  /\ UNCHANGED flowVars
  /\ pc = "solve"
  /\ items # <<>>
  /\ \E o \in SolverOutcomes(CpModel(items, constraints)) :
       /\ o.status \in {"OPTIMAL", "FEASIBLE"}
       /\ cp' = CpModel(items, constraints)
       /\ solver' = o.status
       /\ result' = FoundResult(items, constraints, o.status, o.x,
                                Relaxed(items, constraints))
  /\ pc' = AfterSolve
  /\ outcome' = SolveOutcome
  /\ UNCHANGED <<entry, arg, items, constraints, plan, synthCalls, synthItems>>

\* The model is built and the solver ends with any other status.
SolveNotFound ==
  /\ UNCHANGED flowVars
  /\ pc = "solve"
  /\ items # <<>>
  /\ \E o \in SolverOutcomes(CpModel(items, constraints)) :
       /\ o.status \notin {"OPTIMAL", "FEASIBLE"}
       /\ cp' = CpModel(items, constraints)
       /\ solver' = o.status
       /\ result' = NotFoundResult(items, Relaxed(items, constraints))
  /\ pc' = AfterSolve
  /\ outcome' = SolveOutcome
  /\ UNCHANGED <<entry, arg, items, constraints, plan, synthCalls, synthItems>>

\* ------------------------------------------------ NexusPipeline.pack
\* isinstance(constraints, str) and constraints not in CONSTRAINT_PRESETS
PackUnknownPreset ==
  /\ UNCHANGED flowVars
  /\ pc = "pack"
  /\ arg.kind = "name"
  /\ arg.name \notin PresetNames
  /\ outcome' = "ValueError"
  /\ pc' = "done"
  /\ UNCHANGED <<entry, arg, items, constraints, cp, solver, result, plan,
                 synthCalls, synthItems>>

\* pack's own local is rebound to the preset; the search is awaited and its
\* rows converted; solve is called next.
ResolveConstraints(a) ==
  IF a.kind = "name" THEN CONSTRAINT_PRESETS[a.name] ELSE a.object

PackResolve ==
  /\ UNCHANGED flowVars
  /\ pc = "pack"
  /\ arg.kind = "name" => arg.name \in PresetNames
  /\ constraints' = ResolveConstraints(arg)
  /\ pc' = "solve"
  /\ UNCHANGED <<entry, arg, items, cp, solver, result, plan, synthCalls,
                 synthItems, outcome>>

\* ------------------------------------ NexusPipeline.pack_and_explain
AdvisoryNote == Note("advisory", "", 0, 0, 0)

\* the infeasible plan with the advisory message left out of warnings
InfeasiblePlanWithoutAdvisory(r) ==
  [source |-> "pack_and_explain", selected_items |-> <<>>,
   rejected_items |-> <<>>, reasoning |-> <<>>,
   warnings |-> r.relaxed_constraints]

\* the plan built without the synthesizer when the pack is infeasible
\* (reasoning, a dict, is held as the sequence of its entries)
InfeasiblePlan(r) ==
  [source |-> "pack_and_explain", selected_items |-> <<>>,
   rejected_items |-> <<>>, reasoning |-> <<>>,
   warnings |-> r.relaxed_constraints \o <<AdvisoryNote>>]

\* result.unpacked_items[:10]
PromptCap == 10

\* selected_retrieved + rejected_retrieved with the slice [:10] left out
ExplainItemsUncapped(r) ==
  [k \in 1..Len(r.packed_items) |->
     [item_id |-> r.packed_items[k].item.item_id,
      score |-> r.packed_items[k].item.similarity_score,
      qty |-> r.packed_items[k].qty]]
  \o [k \in 1..Len(r.unpacked_items) |->
     [item_id |-> r.unpacked_items[k].item_id,
      score |-> r.unpacked_items[k].similarity_score,
      qty |-> 0]]

\* selected_retrieved + rejected_retrieved
ExplainItems(r) ==
  [k \in 1..Len(r.packed_items) |->
     [item_id |-> r.packed_items[k].item.item_id,
      score |-> r.packed_items[k].item.similarity_score,
      qty |-> r.packed_items[k].qty]]
  \o [k \in 1..Min(PromptCap, Len(r.unpacked_items)) |->
     [item_id |-> r.unpacked_items[k].item_id,
      score |-> r.unpacked_items[k].similarity_score,
      qty |-> 0]]

\* if result.status == "infeasible": return result, plan
ExplainInfeasible ==
  /\ UNCHANGED flowVars
  /\ pc = "explain"
  /\ result.status = "infeasible"
  /\ plan' = InfeasiblePlan(result)
  /\ outcome' = "returned"
  /\ pc' = "done"
  /\ UNCHANGED <<entry, arg, items, constraints, cp, solver, result,
                 synthCalls, synthItems>>

\* constraint_desc reads constraints.max_weight_grams of pack_and_explain's
\* own parameter, which pack never rebound: on a str that is an
\* AttributeError, raised before the synthesizer is reached.
ExplainAttributeError ==
  /\ UNCHANGED flowVars
  /\ pc = "explain"
  /\ result.status # "infeasible"
  /\ arg.kind = "name"
  /\ outcome' = "AttributeError"
  /\ pc' = "done"
  /\ UNCHANGED <<entry, arg, items, constraints, cp, solver, result, plan,
                 synthCalls, synthItems>>

\* plan = await self.synthesizer.synthesize(constraint_desc, selected + rejected)
ExplainSynthesize ==
  /\ UNCHANGED flowVars
  /\ pc = "explain"
  /\ result.status # "infeasible"
  /\ arg.kind = "object"
  /\ synthCalls' = synthCalls + 1
  /\ synthItems' = ExplainItems(result)
  /\ pc' = "synthesize"
  /\ UNCHANGED <<entry, arg, items, constraints, cp, solver, result, plan,
                 outcome>>

\* the synthesizer answers: return result, plan
SynthesizeReturns ==
  /\ UNCHANGED flowVars
  /\ pc = "synthesize"
  /\ plan' = [source |-> "synthesizer", selected_items |-> <<>>,
              rejected_items |-> <<>>, reasoning |-> <<>>, warnings |-> <<>>]
  /\ outcome' = "returned"
  /\ pc' = "done"
  /\ UNCHANGED <<entry, arg, items, constraints, cp, solver, result,
                 synthCalls, synthItems>>

\* the synthesizer raises (empty or unparseable LLM response): nothing in
\* pack_and_explain catches it
SynthesizeRaises ==
  /\ UNCHANGED flowVars
  /\ pc = "synthesize"
  /\ outcome' = "SynthesisError"
  /\ pc' = "done"
  /\ UNCHANGED <<entry, arg, items, constraints, cp, solver, result, plan,
                 synthCalls, synthItems>>

Next ==
  \/ SolveEmpty
  \/ SolveFound
  \/ SolveNotFound
  \/ PackUnknownPreset
  \/ PackResolve
  \/ ExplainInfeasible
  \/ ExplainAttributeError
  \/ ExplainSynthesize
  \/ SynthesizeReturns
  \/ SynthesizeRaises

Spec == Init /\ [][Next]_vars

\* =================================================================
\* NexusPipeline.ingest and NexusPipeline.ingest_batch
\* =================================================================
\* EmbeddingProvider and the dimension property of the embedder built for it
Providers == {"voyage", "clip_local"}

Dimension(provider) == IF provider = "voyage" THEN 1024 ELSE 512

\* What embed_item can answer with: a list of floats of some length (the
\* components are all written 0).
Vectors == {[n \in 1..len |-> 0] : len \in {Dimension(p) : p \in Providers}}

\* ItemContext, by the two fields that have no default
Contexts ==
  {[name |-> "Rain Jacket", inferred_category |-> "clothing"],
   [name |-> "Trauma Bandage", inferred_category |-> "medical"]}

NoContext == [name |-> "", inferred_category |-> ""]

\* Optional[str]: "None" is None
UserIds == {"None", "user-42"}

\* (image_source, image_url) tuples
ImageSources ==
  {[image_source |-> "jacket.jpg", image_url |-> "https://s3/jacket.jpg"],
   [image_source |-> "bandage.jpg", image_url |-> ""]}

\* uuid4() values, as many as results can be built
Uuids == 1..MaxBatch

\* EmbeddingResult(vector=vector, dimension=len(vector), context=context,
\* image_url=image_url) with the context left at a default
EmbeddingResultWithoutContext(item_id, vector, context, image_url) ==
  [item_id |-> item_id,
   vector |-> vector,
   dimension |-> Len(vector),
   context |-> NoContext,
   image_url |-> image_url]

\* EmbeddingResult(vector=vector, dimension=len(vector), context=context,
\* image_url=image_url); item_id is the default_factory's uuid4()
EmbeddingResult(item_id, vector, context, image_url) ==
  [item_id |-> item_id,
   vector |-> vector,
   dimension |-> Len(vector),
   context |-> context,
   image_url |-> image_url]

\* the entries of the call log
ExtractCall(i, image_source, raised, context) ==
  [op |-> "extract", i |-> i, image_source |-> image_source,
   raised |-> raised, context |-> context]

EmbedItemCall(i, image_source, context, raised, vector) ==
  [op |-> "embed_item", i |-> i, image_source |-> image_source,
   context |-> context, raised |-> raised, vector |-> vector]

UpsertCall(i, res, image_url, user_id, raised) ==
  [op |-> "upsert", i |-> i, result |-> res, image_url |-> image_url,
   user_id |-> user_id, raised |-> raised]

SleepCall(i) == [op |-> "sleep", i |-> i]

IngestRequest(image_sources, user_id) ==
  [kind |-> "ingest", image_sources |-> image_sources, user_id |-> user_id]

\* i: the position in image_sources of the item being ingested; context and
\* vector: the locals of ingest; ids: the list ingest_batch builds
IngestFrame(i, context, vector, ids) ==
  [kind |-> "ingest", i |-> i, context |-> context, vector |-> vector,
   ids |-> ids]

\* ingest(image_source, image_url, user_id) is one item with the caller's
\* user_id; ingest_batch(image_sources) calls ingest(src, image_url=url), so
\* user_id is the default None.
IngestInit ==
  /\ entry \in {"ingest", "ingest_batch"}
  /\ embedder \in Providers
  /\ IF entry = "ingest"
     THEN /\ request \in {IngestRequest(<<im>>, u) : im \in ImageSources, u \in UserIds}
          /\ pc = "extract"
     ELSE /\ request \in {IngestRequest(ims, "None") :
                           ims \in UNION {[1..n -> ImageSources] : n \in 0..MaxBatch}}
          /\ pc = "loop"
  /\ frame = IngestFrame(1, NoContext, <<>>, <<>>)
  /\ calls = <<>>
  /\ reply = NoReply
  /\ outcome = "pending"
  /\ arg = NoArg
  /\ items = <<>>
  /\ constraints = NoArg.object
  /\ cp = NoModel
  /\ solver = "none"
  /\ result = NoResult
  /\ plan = NoPlan
  /\ synthCalls = 0
  /\ synthItems = <<>>

Current == request.image_sources[frame.i]

\* ids.append(item_id) putting the id at the front
IdsWithFirst(ids, item_id) == <<item_id>> \o ids

\* ids.append(item_id)
IdsWith(ids, item_id) == Append(ids, item_id)

\* for i, (src, url) in enumerate(image_sources): the next item is handed to
\* ingest
BatchLoop ==
  /\ pc = "loop"
  /\ frame.i <= Len(request.image_sources)
  /\ pc' = "extract"
  /\ frame' = IngestFrame(frame.i, NoContext, <<>>, frame.ids)
  /\ UNCHANGED <<entry, outcome, embedder, request, calls, reply>>
  /\ UNCHANGED packVars

\* the loop is over: return ids
BatchReturn ==
  /\ pc = "loop"
  /\ frame.i > Len(request.image_sources)
  /\ reply' = [kind |-> "ids", ids |-> frame.ids]
  /\ outcome' = "returned"
  /\ pc' = "done"
  /\ UNCHANGED <<entry, embedder, request, frame, calls>>
  /\ UNCHANGED packVars

\* A stage of ingest raised and ingest carried on to the upsert
StageRaisedSwallowed(exception) ==
  /\ outcome' = outcome
  /\ pc' = "upsert"

\* A stage of ingest raised.  ingest has no handler: called directly, the
\* exception reaches the caller; under ingest_batch, except Exception logs
\* it and the loop goes on to the sleep.
StageRaised(exception) ==
  IF entry = "ingest"
  THEN /\ outcome' = exception
       /\ pc' = "done"
  ELSE /\ outcome' = outcome
       /\ pc' = "sleep"

\* context = await self.extractor.extract(image_source)
Extract ==
  /\ pc = "extract"
  /\ \E c \in Contexts :
       /\ calls' = Append(calls, ExtractCall(frame.i, Current.image_source, FALSE, c))
       /\ frame' = [frame EXCEPT !.context = c]
  /\ pc' = "embed_item"
  /\ UNCHANGED <<entry, outcome, embedder, request, reply>>
  /\ UNCHANGED packVars

ExtractRaises ==
  /\ pc = "extract"
  /\ calls' = Append(calls, ExtractCall(frame.i, Current.image_source, TRUE, NoContext))
  /\ StageRaised("ExtractionError")
  /\ UNCHANGED <<entry, embedder, request, frame, reply>>
  /\ UNCHANGED packVars

\* vector = await self.embedder.embed_item(image_source, context)
EmbedItem ==
  /\ pc = "embed_item"
  /\ \E v \in Vectors :
       /\ calls' = Append(calls, EmbedItemCall(frame.i, Current.image_source,
                                               frame.context, FALSE, v))
       /\ frame' = [frame EXCEPT !.vector = v]
  /\ pc' = "upsert"
  /\ UNCHANGED <<entry, outcome, embedder, request, reply>>
  /\ UNCHANGED packVars

EmbedItemRaises ==
  /\ pc = "embed_item"
  /\ calls' = Append(calls, EmbedItemCall(frame.i, Current.image_source,
                                          frame.context, TRUE, <<>>))
  /\ StageRaised("EmbeddingError")
  /\ UNCHANGED <<entry, embedder, request, frame, reply>>
  /\ UNCHANGED packVars

\* the uuid4() values of the results built so far
UsedUuids ==
  {calls[n].result.item_id : n \in {m \in 1..Len(calls) : calls[m].op = "upsert"}}

\* result = EmbeddingResult(...); item_id = await self.store.upsert(result,
\* image_url=image_url, user_id=user_id), which returns result.item_id;
\* return item_id, context.  Under ingest_batch: ids.append(item_id).
Upsert ==
  /\ pc = "upsert"
  /\ \E id \in Uuids \ UsedUuids :
       LET res == EmbeddingResult(id, frame.vector, frame.context, Current.image_url)
       IN /\ calls' = Append(calls, UpsertCall(frame.i, res, Current.image_url,
                                               request.user_id, FALSE))
          /\ IF entry = "ingest"
             THEN /\ reply' = [kind |-> "tuple", item_id |-> res.item_id,
                               context |-> frame.context]
                  /\ outcome' = "returned"
                  /\ pc' = "done"
                  /\ frame' = frame
             ELSE /\ frame' = [frame EXCEPT !.ids = IdsWith(frame.ids, res.item_id)]
                  /\ pc' = "sleep"
                  /\ UNCHANGED <<reply, outcome>>
  /\ UNCHANGED <<entry, embedder, request>>
  /\ UNCHANGED packVars

UpsertRaises ==
  /\ pc = "upsert"
  /\ \E id \in Uuids \ UsedUuids :
       calls' = Append(calls,
                       UpsertCall(frame.i,
                                  EmbeddingResult(id, frame.vector, frame.context,
                                                  Current.image_url),
                                  Current.image_url, request.user_id, TRUE))
  /\ StageRaised("StoreError")
  /\ UNCHANGED <<entry, embedder, request, frame, reply>>
  /\ UNCHANGED packVars

\* await asyncio.sleep(0.5), after the try statement of every item
BatchSleep ==
  /\ pc = "sleep"
  /\ calls' = Append(calls, SleepCall(frame.i))
  /\ frame' = [frame EXCEPT !.i = frame.i + 1]
  /\ pc' = "loop"
  /\ UNCHANGED <<entry, outcome, embedder, request, reply>>
  /\ UNCHANGED packVars

IngestNext ==
  \/ BatchLoop
  \/ BatchReturn
  \/ Extract
  \/ ExtractRaises
  \/ EmbedItem
  \/ EmbedItemRaises
  \/ Upsert
  \/ UpsertRaises
  \/ BatchSleep

SpecIngest == IngestInit /\ [][IngestNext]_vars

\* =================================================================
\* MissionSynthesizer._parse_plan
\* =================================================================
\* RetrievedItem, by item_id and score; the lists store.search returns hold
\* an id once.
RetrievedItem(id) == [item_id |-> id, score |-> Catalog[id].similarity_score]

RetrievedLists ==
  {<<>>, <<RetrievedItem("a")>>, <<RetrievedItem("b")>>,
   <<RetrievedItem("a"), RetrievedItem("b")>>,
   <<RetrievedItem("b"), RetrievedItem("a")>>}

\* The entries of selected_items and rejected_items in the LLM's JSON: an
\* item_id of the prompt or one it made up, and a reason.
LlmEntries ==
  {[item_id |-> id, reason |-> r] :
     id \in ItemIds \cup {"zz"}, r \in {"keeps warm", "cotton"}}

LlmLists == UNION {[1..n -> LlmEntries] : n \in 0..MaxListed}

LlmData(selected, rejected, warnings, insights) ==
  [selected_items |-> selected, rejected_items |-> rejected,
   warnings |-> warnings, cross_domain_insights |-> insights]

\* item_map = {item.item_id: item for item in all_items} with an entry for
\* an id that no item has
ItemMapWithStranger(all_items) ==
  [id \in {all_items[k].item_id : k \in 1..Len(all_items)} \cup {"zz"} |->
     IF id = "zz" THEN [item_id |-> "zz", score |-> 0]
     ELSE LET last == CHOOSE k \in 1..Len(all_items) :
                        /\ all_items[k].item_id = id
                        /\ \A j \in (k + 1)..Len(all_items) : all_items[j].item_id # id
          IN all_items[last]]

\* item_map = {item.item_id: item for item in all_items}: the last item of
\* an id is the one kept
ItemMap(all_items) ==
  [id \in {all_items[k].item_id : k \in 1..Len(all_items)} |->
     LET last == CHOOSE k \in 1..Len(all_items) :
                   /\ all_items[k].item_id = id
                   /\ \A j \in (k + 1)..Len(all_items) : all_items[j].item_id # id
     IN all_items[last]]

RECURSIVE Looked(_, _)
\* the list a loop appends item_map[item_id] to, for the entries whose
\* item_id is in item_map
Looked(entries, item_map) ==
  IF entries = <<>> THEN <<>>
  ELSE (IF Head(entries).item_id \in DOMAIN item_map
        THEN <<item_map[Head(entries).item_id]>> ELSE <<>>)
       \o Looked(Tail(entries), item_map)

RECURSIVE Reasoned(_, _, _, _)
\* the reasoning dict after a loop: reasoning[item_id] = prefix + reason is
\* assigned for each entry whose item_id is in item_map, in order
Reasoned(entries, item_map, prefix, reasoning) ==
  IF entries = <<>> THEN reasoning
  ELSE Reasoned(Tail(entries), item_map, prefix,
                IF Head(entries).item_id \in DOMAIN item_map
                THEN (Head(entries).item_id :> (prefix \o Head(entries).reason))
                       @@ reasoning
                ELSE reasoning)

NoReasoning == [id \in {} |-> ""]

MissionPlan(selected, reasoning, warnings, rejected) ==
  [selected_items |-> selected, reasoning |-> reasoning,
   warnings |-> warnings, rejected_items |-> rejected]

\* _parse_plan(data, all_items)
ParsePlan(data, all_items) ==
  LET item_map == ItemMap(all_items)
  IN MissionPlan(
       Looked(data.selected_items, item_map),
       Reasoned(data.rejected_items, item_map, "REJECTED: ",
                Reasoned(data.selected_items, item_map, "", NoReasoning)),
       data.warnings
         \o [k \in 1..Len(data.cross_domain_insights) |->
               "[INSIGHT] " \o data.cross_domain_insights[k]],
       Looked(data.rejected_items, item_map))

ParseInit ==
  /\ entry = "_parse_plan"
  /\ pc = "parse"
  /\ request \in {[kind |-> "parse", data |-> LlmData(sel, rej, w, w),
                    all_items |-> its] :
                     sel \in LlmLists, rej \in LlmLists,
                     w \in {<<>>, <<"no stove">>}, its \in RetrievedLists}
  /\ frame = NoFrame
  /\ calls = <<>>
  /\ reply = NoReply
  /\ outcome = "pending"
  /\ embedder = "voyage"
  /\ arg = NoArg
  /\ items = <<>>
  /\ constraints = NoArg.object
  /\ cp = NoModel
  /\ solver = "none"
  /\ result = NoResult
  /\ plan = NoPlan
  /\ synthCalls = 0
  /\ synthItems = <<>>

\* return MissionPlan(...)
ParseReturns ==
  /\ pc = "parse"
  /\ reply' = [kind |-> "plan", plan |-> ParsePlan(request.data, request.all_items)]
  /\ outcome' = "returned"
  /\ pc' = "done"
  /\ UNCHANGED <<entry, embedder, request, frame, calls>>
  /\ UNCHANGED packVars

ParseNext == ParseReturns

SpecParsePlan == ParseInit /\ [][ParseNext]_vars

\* =================================================================
\* NexusPipeline.search and the route search_items
\* =================================================================
\* entry "search" is a call of pipeline.search with the request's fields as
\* its arguments; entry "search_items" is POST /search with the request as
\* its body.
SearchRequests ==
  {[kind |-> "search", query |-> "cold weather gear", top_k |-> k,
    category_filter |-> cf, synthesize |-> sy, user_id |-> u] :
     k \in {10, 15}, cf \in {"None", "medical"}, sy \in BOOLEAN, u \in UserIds}

SearchFrame(query_vector, retrieved) ==
  [kind |-> "search", query_vector |-> query_vector, retrieved |-> retrieved]

\* the user_id pipeline.search is called with: search_items passes query,
\* top_k, category_filter and synthesize, so user_id is the default None
SearchUserId == IF entry = "search_items" THEN "None" ELSE request.user_id

\* what the LLM answers the synthesis prompt with, when it is JSON
LlmAnswers ==
  {LlmData(<<>>, <<>>, <<>>, <<>>),
   LlmData(<<[item_id |-> "a", reason |-> "keeps warm"]>>,
           <<[item_id |-> "b", reason |-> "cotton"]>>,
           <<"no stove">>, <<"dual use">>),
   LlmData(<<[item_id |-> "zz", reason |-> "keeps warm"]>>,
           <<[item_id |-> "a", reason |-> "cotton"]>>, <<>>, <<>>)}

EmbedTextCall(text, raised, vector) ==
  [op |-> "embed_text", text |-> text, raised |-> raised, vector |-> vector]

\* store.search called with the default top_k
StoreSearchCallDefaultTopK(query_vector, top_k, category_filter, user_id, raised, its) ==
  [op |-> "store_search", query_vector |-> query_vector, top_k |-> 15,
   category_filter |-> category_filter, user_id |-> user_id,
   raised |-> raised, items |-> its]

StoreSearchCall(query_vector, top_k, category_filter, user_id, raised, its) ==
  [op |-> "store_search", query_vector |-> query_vector, top_k |-> top_k,
   category_filter |-> category_filter, user_id |-> user_id,
   raised |-> raised, items |-> its]

SynthesizeCall(query, retrieved_items, raised, p) ==
  [op |-> "synthesize", query |-> query, retrieved_items |-> retrieved_items,
   raised |-> raised, plan |-> p]

SearchInit ==
  /\ entry \in {"search", "search_items"}
  /\ request \in SearchRequests
  /\ embedder \in Providers
  /\ pc = "embed_text"
  /\ frame = SearchFrame(<<>>, <<>>)
  /\ calls = <<>>
  /\ reply = NoReply
  /\ outcome = "pending"
  /\ arg = NoArg
  /\ items = <<>>
  /\ constraints = NoArg.object
  /\ cp = NoModel
  /\ solver = "none"
  /\ result = NoResult
  /\ plan = NoPlan
  /\ synthCalls = 0
  /\ synthItems = <<>>

\* _retrieved_to_result(item, reason)
SearchResultItem(item, reason) ==
  [item_id |-> item.item_id, score |-> item.score, reason |-> reason]

\* plan.reasoning.get(item_id)
ReasoningGet(reasoning, item_id) ==
  IF item_id \in DOMAIN reasoning THEN reasoning[item_id] ELSE "None"

\* the SearchResponse search_items builds from what pipeline.search returned
SearchResponse(value) ==
  IF request.synthesize /\ value.kind = "plan"
  THEN [kind |-> "SearchResponse",
        selected_items |->
          [k \in 1..Len(value.plan.selected_items) |->
             SearchResultItem(value.plan.selected_items[k],
                              ReasoningGet(value.plan.reasoning,
                                           value.plan.selected_items[k].item_id))],
        rejected_items |->
          [k \in 1..Len(value.plan.rejected_items) |->
             SearchResultItem(value.plan.rejected_items[k],
                              ReasoningGet(value.plan.reasoning,
                                           value.plan.rejected_items[k].item_id))],
        warnings |-> value.plan.warnings,
        raw_results |-> <<>>]
  ELSE [kind |-> "SearchResponse",
        selected_items |-> <<>>,
        rejected_items |-> <<>>,
        warnings |-> <<>>,
        raw_results |->
          [k \in 1..Len(value.items) |-> SearchResultItem(value.items[k], "None")]]

\* pipeline.search returns value: to its caller, or to search_items, which
\* answers with the SearchResponse
SearchReturned(value) ==
  /\ reply' = IF entry = "search" THEN value ELSE SearchResponse(value)
  /\ outcome' = "returned"
  /\ pc' = "done"

\* An awaited call raises.  pipeline.search has no handler; search_items
\* catches Exception and raises HTTPException(status_code=500).
SearchRaised(exception) ==
  /\ outcome' = IF entry = "search" THEN exception ELSE "HTTP 500"
  /\ pc' = "done"
  /\ reply' = reply

\* query_vector = await self.embedder.embed_text(query)
EmbedText ==
  /\ pc = "embed_text"
  /\ \E v \in Vectors :
       /\ calls' = Append(calls, EmbedTextCall(request.query, FALSE, v))
       /\ frame' = [frame EXCEPT !.query_vector = v]
  /\ pc' = "store_search"
  /\ UNCHANGED <<entry, outcome, embedder, request, reply>>
  /\ UNCHANGED packVars

EmbedTextRaises ==
  /\ pc = "embed_text"
  /\ calls' = Append(calls, EmbedTextCall(request.query, TRUE, <<>>))
  /\ SearchRaised("EmbeddingError")
  /\ UNCHANGED <<entry, embedder, request, frame>>
  /\ UNCHANGED packVars

\* retrieved = await self.store.search(...); if not synthesize: return
\* retrieved
StoreSearch ==
  /\ pc = "store_search"
  /\ \E its \in RetrievedLists :
       /\ calls' = Append(calls,
                          StoreSearchCall(frame.query_vector, request.top_k,
                                          request.category_filter, SearchUserId,
                                          FALSE, its))
       /\ frame' = [frame EXCEPT !.retrieved = its]
       /\ IF request.synthesize
          THEN /\ pc' = "synthesize"
               /\ UNCHANGED <<reply, outcome>>
          ELSE SearchReturned([kind |-> "items", items |-> its])
  /\ UNCHANGED <<entry, embedder, request>>
  /\ UNCHANGED packVars

StoreSearchRaises ==
  /\ pc = "store_search"
  /\ calls' = Append(calls,
                     StoreSearchCall(frame.query_vector, request.top_k,
                                     request.category_filter, SearchUserId,
                                     TRUE, <<>>))
  /\ SearchRaised("StoreError")
  /\ UNCHANGED <<entry, embedder, request, frame>>
  /\ UNCHANGED packVars

\* plan = await self.synthesizer.synthesize(query, retrieved); return plan.
\* synthesize parses the LLM's JSON and returns _parse_plan(data,
\* retrieved_items).
SearchSynthesize ==
  /\ pc = "synthesize"
  /\ \E data \in LlmAnswers :
       LET p == ParsePlan(data, frame.retrieved)
       IN /\ calls' = Append(calls, SynthesizeCall(request.query, frame.retrieved,
                                                   FALSE, p))
          /\ SearchReturned([kind |-> "plan", plan |-> p])
  /\ UNCHANGED <<entry, embedder, request, frame>>
  /\ UNCHANGED packVars

\* synthesize raises: the completion call fails, or the content is empty or
\* not JSON (ValueError)
SearchSynthesizeRaises ==
  /\ pc = "synthesize"
  /\ calls' = Append(calls, SynthesizeCall(request.query, frame.retrieved, TRUE,
                                           MissionPlan(<<>>, NoReasoning, <<>>, <<>>)))
  /\ SearchRaised("ValueError")
  /\ UNCHANGED <<entry, embedder, request, frame>>
  /\ UNCHANGED packVars

SearchNext ==
  \/ EmbedText
  \/ EmbedTextRaises
  \/ StoreSearch
  \/ StoreSearchRaises
  \/ SearchSynthesize
  \/ SearchSynthesizeRaises

SpecSearch == SearchInit /\ [][SearchNext]_vars

\* =================================================================
\* ContextExtractor.extract_batch
\* =================================================================
Images == {im.image_source : im \in ImageSources}

\* A task gather() wraps a coroutine self.extract(src) in: running until the
\* completion call answers, then returned with an ItemContext or raised.
ExtractTask(image_source, state, context) ==
  [image_source |-> image_source, state |-> state, context |-> context]

ExtractBatchInit ==
  /\ entry = "extract_batch"
  /\ request \in {[kind |-> "extract_batch", image_sources |-> ims] :
                     ims \in UNION {[1..n -> Images] : n \in 0..MaxBatch}}
  /\ pc = "gather"
  /\ frame = [kind |-> "extract_batch", tasks |-> <<>>]
  /\ calls = <<>>
  /\ reply = NoReply
  /\ outcome = "pending"
  /\ embedder = "voyage"
  /\ arg = NoArg
  /\ items = <<>>
  /\ constraints = NoArg.object
  /\ cp = NoModel
  /\ solver = "none"
  /\ result = NoResult
  /\ plan = NoPlan
  /\ synthCalls = 0
  /\ synthItems = <<>>

\* tasks = [self.extract(src) for src in image_sources];
\* await asyncio.gather(*tasks): every coroutine is scheduled as a task
Gather ==
  /\ pc = "gather"
  /\ frame' = [frame EXCEPT !.tasks =
                 [i \in 1..Len(request.image_sources) |->
                    ExtractTask(request.image_sources[i], "running", NoContext)]]
  /\ pc' = "waiting"
  /\ UNCHANGED <<entry, outcome, embedder, request, calls, reply>>
  /\ UNCHANGED packVars

\* extract of a task returns ItemContext(**data).  gather does not cancel
\* the other tasks when one raises, so a task may finish after extract_batch
\* has ended.
TaskReturns ==
  /\ pc \in {"waiting", "done"}
  /\ \E i \in 1..Len(frame.tasks), c \in Contexts :
       /\ frame.tasks[i].state = "running"
       /\ frame' = [frame EXCEPT !.tasks[i] =
                      ExtractTask(frame.tasks[i].image_source, "returned", c)]
  /\ UNCHANGED <<entry, pc, outcome, embedder, request, calls, reply>>
  /\ UNCHANGED packVars

\* extract of a task raises (empty content, invalid JSON, API error)
TaskRaises ==
  /\ pc \in {"waiting", "done"}
  /\ \E i \in 1..Len(frame.tasks) :
       /\ frame.tasks[i].state = "running"
       /\ frame' = [frame EXCEPT !.tasks[i] =
                      ExtractTask(frame.tasks[i].image_source, "raised", NoContext)]
  /\ UNCHANGED <<entry, pc, outcome, embedder, request, calls, reply>>
  /\ UNCHANGED packVars

\* every task returned: gather's result is the list of their results in the
\* order of the arguments
GatherReturns ==
  /\ pc = "waiting"
  /\ \A i \in 1..Len(frame.tasks) : frame.tasks[i].state = "returned"
  /\ reply' = [kind |-> "contexts",
               contexts |-> [i \in 1..Len(frame.tasks) |-> frame.tasks[i].context]]
  /\ outcome' = "returned"
  /\ pc' = "done"
  /\ UNCHANGED <<entry, embedder, request, frame, calls>>
  /\ UNCHANGED packVars

\* return_exceptions is left False: the first exception a task raises is
\* propagated to the awaiting extract_batch, which has no handler
GatherRaises ==
  /\ pc = "waiting"
  /\ \E i \in 1..Len(frame.tasks) : frame.tasks[i].state = "raised"
  /\ outcome' = "ValueError"
  /\ pc' = "done"
  /\ UNCHANGED <<entry, embedder, request, frame, calls, reply>>
  /\ UNCHANGED packVars

ExtractBatchNext ==
  \/ Gather
  \/ TaskReturns
  \/ TaskRaises
  \/ GatherReturns
  \/ GatherRaises

SpecExtractBatch == ExtractBatchInit /\ [][ExtractBatchNext]_vars

\* =================================================================
\* Properties
\* =================================================================
Succeeded == result.status \in {"optimal", "feasible"}

\* total packed quantity of the input positions in S
PackedQty(r, S) ==
  SumOver({k \in 1..Len(r.packed_items) : r.packed_items[k].idx \in S},
          [k \in 1..Len(r.packed_items) |-> r.packed_items[k].qty])

HasNote(r, kind, name) ==
  \E k \in 1..Len(r.relaxed_constraints) :
     /\ r.relaxed_constraints[k].kind = kind
     /\ r.relaxed_constraints[k].name = name

\* C1: whenever solve returns 'optimal' or 'feasible', the sum over
\* packed_items of quantity x weight_grams, which is the reported
\* total_weight_grams, is at most constraints.max_weight_grams, for whole and
\* for fractional gram weights.
C1_WeightWithinLimit ==
  Succeeded =>
    /\ result.total_weight_grams =
         SumOver(1..Len(result.packed_items),
                 [k \in 1..Len(result.packed_items) |->
                    result.packed_items[k].qty
                      * result.packed_items[k].item.weight_grams])
    /\ result.total_weight_grams <= constraints.max_weight_grams

\* C2: pack_and_explain given the name of a known preset, with a solve that
\* is not infeasible, calls the synthesizer and ends as it does for the
\* equivalent object: it returns, or raises only what the synthesizer raised.
C2_PresetNameExplained ==
  ( /\ pc = "done"
    /\ entry = "pack_and_explain"
    /\ arg.kind = "name"
    /\ arg.name \in PresetNames
    /\ result.status \in {"optimal", "feasible"} )
  => /\ synthCalls = 1
     /\ outcome \in {"returned", "SynthesisError"}

\* A declared minimum m over the candidates at `indices` holds at its
\* declared level, or a note of kind `relaxedKind` names it, states the
\* lowered minimum eff < m, and the packed quantity reaches eff.
MinimumHeldOrLowered(r, indices, relaxedKind, name, m) ==
  \/ PackedQty(r, indices) >= m
  \/ \E k \in 1..Len(r.relaxed_constraints) :
       LET n == r.relaxed_constraints[k]
       IN /\ n.kind = relaxedKind
          /\ n.name = name
          /\ n.need = m
          /\ n.eff < m
          /\ PackedQty(r, indices) >= n.eff

\* No candidate matches and the note "No items available for ... (need >=m)"
\* is there: it states the declared minimum only, nothing is enforced.
MinimumSkipped(r, indices, noneKind, name, m) ==
  /\ indices = {}
  /\ \E k \in 1..Len(r.relaxed_constraints) :
       LET n == r.relaxed_constraints[k]
       IN n.kind = noneKind /\ n.name = name /\ n.need = m

\* C3 as stated: whenever solve returns 'optimal' or 'feasible', every
\* category minimum and every tag minimum either holds at its declared level
\* or has a note naming it, with the packed quantity at least the lowered
\* minimum that note states.
C3_MinimumsHeldOrLowered ==
  Succeeded =>
    /\ \A k \in 1..Len(constraints.category_minimums) :
         LET cat == constraints.category_minimums[k][1]
             m == constraints.category_minimums[k][2]
         IN MinimumHeldOrLowered(result, CategoryIndices(items, cat),
                                 "category_relaxed", cat, m)
    /\ \A k \in 1..Len(constraints.tag_minimums) :
         LET tag == constraints.tag_minimums[k][1]
             m == constraints.tag_minimums[k][2]
         IN MinimumHeldOrLowered(result, TagIndices(items, tag),
                                 "tag_relaxed", tag, m)

\* C3 amended: whenever solve returns 'optimal' or 'feasible', every category
\* minimum and every tag minimum holds at its declared level, or has a
\* "relaxed from >=m to >=m'" note with the packed quantity at least m', or
\* matches no candidate and has the note "No items available ... (need >=m)",
\* which states no lowered minimum: nothing is enforced for it.
C3_MinimumsHeldLoweredOrSkipped ==
  Succeeded =>
    /\ \A k \in 1..Len(constraints.category_minimums) :
         LET cat == constraints.category_minimums[k][1]
             m == constraints.category_minimums[k][2]
             indices == CategoryIndices(items, cat)
         IN \/ MinimumHeldOrLowered(result, indices, "category_relaxed", cat, m)
            \/ MinimumSkipped(result, indices, "no_category", cat, m)
    /\ \A k \in 1..Len(constraints.tag_minimums) :
         LET tag == constraints.tag_minimums[k][1]
             m == constraints.tag_minimums[k][2]
             indices == TagIndices(items, tag)
         IN \/ MinimumHeldOrLowered(result, indices, "tag_relaxed", tag, m)
            \/ MinimumSkipped(result, indices, "no_tag", tag, m)

\* A solve that succeeded with a category minimum and a tag minimum both
\* lowered from 2 to the one unit available and met at that, the other
\* candidate left unpacked.
C3_Witness ==
  /\ Succeeded
  /\ Len(items) = 2
  /\ constraints.category_minimums = << <<"medical", 2>> >>
  /\ constraints.tag_minimums = << <<"warmth", 2>> >>
  /\ HasNote(result, "category_relaxed", "medical")
  /\ PackedQty(result, CategoryIndices(items, "medical")) = 1
  /\ Len(result.unpacked_items) = 1

\* the upper bounds U_i the claim speaks of
AvailableWithinBounds(its, c, indices) ==
  SumOver(indices, [i \in 1..Len(its) |-> Upper(its[i], c)])

EnforcedAt(its, c, r, indices, relaxedKind, name, m) ==
  LET A == AvailableWithinBounds(its, c, indices)
      enforced == Min(m, A)
  IN /\ \E k \in 1..Len(cp.rows) : cp.rows[k] = Row("ge", indices, enforced)
     /\ enforced < m =>
          \E k \in 1..Len(r.relaxed_constraints) :
            LET n == r.relaxed_constraints[k]
            IN n.kind = relaxedKind /\ n.name = name /\ n.need = m
                 /\ n.eff = enforced

\* C4: for a category or tag minimum m with at least one matching candidate,
\* the minimum solve enforces is min(m, A), A the sum over the matching items
\* of U_i = min(quantity_owned_i, max_per_item); when min(m, A) < m a note
\* with both values is recorded.
C4_EnforcedMinimumIsMinOfNeedAndBounds ==
  solver # "none" =>
    /\ \A k \in 1..Len(constraints.category_minimums) :
         LET cat == constraints.category_minimums[k][1]
             m == constraints.category_minimums[k][2]
             indices == CategoryIndices(items, cat)
         IN indices # {} =>
              EnforcedAt(items, constraints, result, indices,
                         "category_relaxed", cat, m)
    /\ \A k \in 1..Len(constraints.tag_minimums) :
         LET tag == constraints.tag_minimums[k][1]
             m == constraints.tag_minimums[k][2]
             indices == TagIndices(items, tag)
         IN indices # {} =>
              EnforcedAt(items, constraints, result, indices,
                         "tag_relaxed", tag, m)

MaxPerItemHolds(c, qty) == \A m \in c.max_per_item : qty <= m

\* C5: whenever solve returns 'optimal' or 'feasible', every packed entry is
\* an input item with 1 <= qty <= its quantity_owned, qty <= max_per_item
\* when that is set, and no input item is packed twice.
C5_PackedQuantitiesWithinBounds ==
  Succeeded =>
    /\ \A k \in 1..Len(result.packed_items) :
         LET e == result.packed_items[k]
         IN /\ e.idx \in 1..Len(items)
            /\ e.item = items[e.idx]
            /\ 1 <= e.qty
            /\ e.qty <= e.item.quantity_owned
            /\ MaxPerItemHolds(constraints, e.qty)
    /\ \A j, k \in 1..Len(result.packed_items) :
         result.packed_items[j].idx = result.packed_items[k].idx => j = k

\* A solve that packed an item at max_per_item, below what is owned, with
\* weight to spare for more.
C5_Witness ==
  /\ result.status = "optimal"
  /\ constraints.max_per_item = {1}
  /\ \E k \in 1..Len(result.packed_items) :
       /\ result.packed_items[k].qty = 1
       /\ result.packed_items[k].item.quantity_owned = 2
       /\ result.total_weight_grams + result.packed_items[k].item.weight_grams
            <= constraints.max_weight_grams

\* C6: whenever solve returns 'optimal' or 'feasible', every category
\* maximum M holds of the packed quantity of its category; the row added for
\* it carries M itself, and no note of relaxed_constraints names a maximum.
C6_CategoryMaximumsHold ==
  Succeeded =>
    /\ \A k \in 1..Len(constraints.category_maximums) :
         LET cat == constraints.category_maximums[k][1]
             M == constraints.category_maximums[k][2]
             indices == CategoryIndices(items, cat)
         IN /\ PackedQty(result, indices) <= M
            /\ indices # {} =>
                 \E j \in 1..Len(cp.rows) : cp.rows[j] = Row("le", indices, M)
    /\ \A k \in 1..Len(result.relaxed_constraints) :
         result.relaxed_constraints[k].kind \in
           {"no_category", "category_relaxed", "no_tag", "tag_relaxed",
            "pin_missing"}

\* An optimal solve held at a category maximum although more of that
\* category was owned and the weight limit left room for it.
C6_Witness ==
  /\ result.status = "optimal"
  /\ constraints.category_maximums = << <<"medical", 1>> >>
  /\ constraints.max_per_item = {}
  /\ PackedQty(result, CategoryIndices(items, "medical")) = 1
  /\ \E i \in CategoryIndices(items, "medical") :
       /\ PackedQty(result, {i}) < items[i].quantity_owned
       /\ result.total_weight_grams + items[i].weight_grams
            <= constraints.max_weight_grams

MatchedPins(its, c) ==
  SelectSeq(c.pinned_items, LAMBDA id : PinnedIndices(its, id) # {})

WithPins(c, pins) == [c EXCEPT !.pinned_items = pins]

\* C7: whenever solve returns 'optimal' or 'feasible', every pinned id that
\* matches a candidate is packed with total quantity >= 1; every pinned id
\* that matches none has its 'Pinned item <id> not found in candidates' note,
\* and the model solved and the other notes are those of the same
\* constraints without that id.
C7_PinnedItemsPacked ==
  Succeeded =>
    /\ \A k \in 1..Len(constraints.pinned_items) :
         LET id == constraints.pinned_items[k]
             indices == PinnedIndices(items, id)
         IN IF indices # {}
            THEN PackedQty(result, indices) >= 1
            ELSE HasNote(result, "pin_missing", id)
    /\ cp = CpModel(items, WithPins(constraints, MatchedPins(items, constraints)))
    /\ SelectSeq(result.relaxed_constraints, LAMBDA n : n.kind # "pin_missing")
         = Relaxed(items, WithPins(constraints, MatchedPins(items, constraints)))

\* A solve that succeeded with one pinned id found and packed, the less
\* relevant candidate left behind, and one pinned id not found and noted.
C7_Witness ==
  /\ Succeeded
  /\ constraints.pinned_items = <<"z", "a">>
  /\ PackedQty(result, PinnedIndices(items, "a")) >= 1
  /\ HasNote(result, "pin_missing", "z")
  /\ Len(result.unpacked_items) >= 1

\* C8: a PackingResult with status 'infeasible' has packed_items empty,
\* unpacked_items equal to the input item list, and total_weight_grams,
\* total_similarity_score and weight_utilization all 0.
C8_InfeasibleResultIsEmptyPack ==
  result.status = "infeasible" =>
    /\ result.packed_items = <<>>
    /\ result.unpacked_items = items
    /\ result.total_weight_grams = 0
    /\ result.total_similarity_score = 0
    /\ result.weight_utilization = 0

\* The solver showed a model of two candidates to have no solution.
C8_Witness ==
  /\ result.status = "infeasible"
  /\ solver = "INFEASIBLE"
  /\ Len(items) = 2
  /\ Len(result.unpacked_items) = 2

\* C9: for every input to solve, the empty item list included, a result with
\* status 'infeasible' carries the note 'Problem is infeasible -- try relaxing
\* weight or diversity constraints' in relaxed_constraints.
C9_InfeasibleIsExplained ==
  result.status = "infeasible" =>
    \E k \in 1..Len(result.relaxed_constraints) :
       result.relaxed_constraints[k] = InfeasibleNote

\* total similarity, sum of qty_i x similarity_i, of an assignment
TotalSimilarity(its, x) ==
  SumOver(1..Len(its), [i \in 1..Len(its) |-> its[i].similarity_score * x[i]])

\* C11: whenever solve returns status 'optimal', no other assignment that
\* satisfies the same variable bounds and constraints has a strictly larger
\* total similarity (sum of qty_i x similarity_i) than the returned pack: the
\* per-item bonus decides only between assignments of equal total similarity.
C11_RelevanceDominatesBonus ==
  (pc # "solve" /\ result.status = "optimal")
    => \A y \in Solutions(cp) :
         TotalSimilarity(items, y) <= result.total_similarity_score

\* C10: when the time limit strikes with a solution in hand (the solver ends
\* FEASIBLE), solve returns it with status 'feasible' and a note that the
\* time limit triggered; a result with status 'optimal' has no such note.
C10_TimeLimitIsNoted ==
  /\ solver = "FEASIBLE" =>
       /\ result.status = "feasible"
       /\ \E k \in 1..Len(result.relaxed_constraints) :
            result.relaxed_constraints[k].kind = "time_limit"
  /\ result.status = "optimal" =>
       \A k \in 1..Len(result.relaxed_constraints) :
          result.relaxed_constraints[k].kind # "time_limit"

\* C16: in pack_and_explain, solve has completed before the synthesizer is
\* called, the synthesizer is called at most once, and the item list it is
\* given is every packed item of the PackingResult, in order, followed by the
\* first 10 unpacked items of that same result (all of them when there are
\* fewer than 10).
C16_SynthesizerSeesPackedThenTenUnpacked ==
  /\ synthCalls <= 1
  /\ synthCalls = 1 =>
       LET np == Len(result.packed_items)
           nu == Len(result.unpacked_items)
           shown == IF nu <= 10 THEN nu ELSE 10
       IN /\ pc \in {"synthesize", "done"}
          /\ solver \in {"OPTIMAL", "FEASIBLE"}
          /\ Succeeded
          /\ Len(synthItems) = np + shown
          /\ \A k \in 1..np :
               /\ synthItems[k].item_id = result.packed_items[k].item.item_id
               /\ synthItems[k].qty = result.packed_items[k].qty
          /\ \A k \in 1..shown :
               /\ synthItems[np + k].item_id = result.unpacked_items[k].item_id
               /\ synthItems[np + k].qty = 0

\* The synthesizer was called for a pack of one "b" out of twelve candidates:
\* eleven are unpacked, the "a" at the tail among them, and ten are shown.
C16_Witness ==
  /\ synthCalls = 1
  /\ Len(result.packed_items) = 1
  /\ Len(result.unpacked_items) = ManyItems - 1
  /\ result.unpacked_items[ManyItems - 1].item_id = "a"
  /\ Len(synthItems) = 1 + PromptCap
  /\ \A k \in 1..Len(synthItems) : synthItems[k].item_id = "b"

\* ------------------------------------------------- ingest, ingest_batch
\* the calls to extractor, embedder and store made for item i, in order
StageCalls(i) == SelectSeq(calls, LAMBDA e : e.i = i /\ e.op # "sleep")

StageOrder == <<"extract", "embed_item", "upsert">>

\* C12: within one ingest call the three stages run strictly in sequence and
\* once each: extractor.extract, then embedder.embed_item, then store.upsert.
\* A stage is called only after the one before it returned.  embed_item
\* receives the image and the very ItemContext the extractor returned; upsert
\* receives an EmbeddingResult holding that context and the vector embed_item
\* returned, with the caller's image_url and user_id.
C12_IngestStagesInSequence ==
  \A i \in 1..Len(request.image_sources) :
    LET cs == StageCalls(i)
        im == request.image_sources[i]
    IN /\ Len(cs) <= 3
       /\ \A n \in 1..Len(cs) : cs[n].op = StageOrder[n]
       /\ \A n \in 1..(Len(cs) - 1) : ~cs[n].raised
       /\ Len(cs) >= 1 => cs[1].image_source = im.image_source
       /\ Len(cs) >= 2 =>
            /\ cs[2].image_source = im.image_source
            /\ cs[2].context = cs[1].context
       /\ Len(cs) = 3 =>
            /\ cs[3].result.context = cs[1].context
            /\ cs[3].result.vector = cs[2].vector
            /\ cs[3].image_url = im.image_url
            /\ cs[3].user_id = request.user_id
       /\ (entry = "ingest" /\ outcome = "returned") =>
            /\ Len(cs) = 3
            /\ ~cs[3].raised
            /\ reply.item_id = cs[3].result.item_id
            /\ reply.context = cs[1].context

\* An ingest for user-42 with a non-empty image_url returned.
C12_Witness ==
  /\ entry = "ingest"
  /\ outcome = "returned"
  /\ request.user_id = "user-42"
  /\ request.image_sources[1].image_url # ""
  /\ Len(calls) = 3
  /\ calls[3].op = "upsert"
  /\ calls[3].result.context \in Contexts

\* C13: the EmbeddingResult passed to upsert satisfies len(vector) ==
\* dimension == the embedder's dimension(), whatever vector the embedder
\* returned: a vector of any other length is never upserted.
C13_UpsertedVectorHasEmbedderDimension ==
  \A n \in 1..Len(calls) :
    calls[n].op = "upsert" =>
      /\ Len(calls[n].result.vector) = calls[n].result.dimension
      /\ calls[n].result.dimension = Dimension(embedder)

\* the item_ids of the upserts that returned, in the order of the calls
RECURSIVE UpsertedIds(_)
UpsertedIds(cs) ==
  IF cs = <<>> THEN <<>>
  ELSE (IF Head(cs).op = "upsert" /\ ~Head(cs).raised
        THEN <<Head(cs).result.item_id>> ELSE <<>>) \o UpsertedIds(Tail(cs))

\* C20: ingest_batch runs the ingests one at a time in input order: the
\* calls made for item k+1 all come after those for item k, and item k+1
\* starts only after item k returned or raised and the delay after it was
\* slept.  An item whose ingest raises is skipped and the later items are
\* still processed: ingest_batch itself never raises and, when it returns,
\* every item was started.  The list built and returned holds the ids of the
\* ingests that returned, in input order.
C20_BatchIsSequentialAndSkipsFailures ==
  entry = "ingest_batch" =>
    /\ \A m, n \in 1..Len(calls) : m < n => calls[m].i <= calls[n].i
    /\ \A n \in 1..Len(calls) :
         /\ (calls[n].op = "extract" /\ calls[n].i > 1) =>
              /\ n > 1
              /\ calls[n - 1] = SleepCall(calls[n].i - 1)
         /\ calls[n].op = "sleep" =>
              /\ n > 1
              /\ calls[n - 1].i = calls[n].i
              /\ calls[n - 1].op # "sleep"
              /\ calls[n - 1].raised \/ calls[n - 1].op = "upsert"
    /\ outcome \in {"pending", "returned"}
    /\ frame.ids = UpsertedIds(calls)
    /\ outcome = "returned" =>
         /\ reply.ids = UpsertedIds(calls)
         /\ \A i \in 1..Len(request.image_sources) :
              /\ StageCalls(i) # <<>>
              /\ \E n \in 1..Len(calls) : calls[n] = SleepCall(i)

\* A batch of two returned: the embedding of the first item raised, the
\* second item was ingested and its id is the whole list.
C20_Witness ==
  /\ entry = "ingest_batch"
  /\ outcome = "returned"
  /\ Len(request.image_sources) = 2
  /\ Len(StageCalls(1)) = 2
  /\ StageCalls(1)[2].raised
  /\ Len(StageCalls(2)) = 3
  /\ reply.ids = <<StageCalls(2)[3].result.item_id>>

\* ---------------------------------------------------------- _parse_plan
ItemIdsOf(all_items) == {all_items[k].item_id : k \in 1..Len(all_items)}

KnownEntries(entries, all_items) ==
  SelectSeq(entries, LAMBDA en : en.item_id \in ItemIdsOf(all_items))

C18_ReasoningMatchesTheList ==
  (entry = "_parse_plan" /\ outcome = "returned") =>
    LET p == reply.plan
    IN /\ \A k \in 1..Len(p.selected_items) :
            \E n \in 1..Len(request.data.selected_items) :
              /\ request.data.selected_items[n].item_id = p.selected_items[k].item_id
              /\ p.reasoning[p.selected_items[k].item_id]
                   = request.data.selected_items[n].reason
       /\ \A k \in 1..Len(p.rejected_items) :
            \E n \in 1..Len(request.data.rejected_items) :
              /\ request.data.rejected_items[n].item_id = p.rejected_items[k].item_id
              /\ p.reasoning[p.rejected_items[k].item_id]
                   = "REJECTED: " \o request.data.rejected_items[n].reason

\* --------------------------------------------------------------- search
\* C14: search always embeds the query first and then calls store.search,
\* once, with the embedded query and the caller's top_k, category_filter and
\* user_id.  With synthesize=False the synthesizer is never called and search
\* returns exactly the list the store returned.  With synthesize=True the
\* synthesizer is called exactly once, after store.search returned, with
\* (query, the retrieved list), and search returns its MissionPlan.
C14_SearchEmbedsSearchesThenSynthesizes ==
  /\ Len(calls) <= 3
  /\ Len(calls) >= 1 =>
       /\ calls[1].op = "embed_text"
       /\ calls[1].text = request.query
  /\ Len(calls) >= 2 =>
       /\ ~calls[1].raised
       /\ calls[2].op = "store_search"
       /\ calls[2].query_vector = calls[1].vector
       /\ calls[2].top_k = request.top_k
       /\ calls[2].category_filter = request.category_filter
       /\ calls[2].user_id = IF entry = "search" THEN request.user_id ELSE "None"
  /\ Len(calls) = 3 =>
       /\ request.synthesize
       /\ ~calls[2].raised
       /\ calls[3].op = "synthesize"
       /\ calls[3].query = request.query
       /\ calls[3].retrieved_items = calls[2].items
  /\ outcome = "returned" =>
       IF request.synthesize
       THEN /\ Len(calls) = 3
            /\ ~calls[3].raised
            /\ entry = "search" => reply = [kind |-> "plan", plan |-> calls[3].plan]
       ELSE /\ Len(calls) = 2
            /\ ~calls[2].raised
            /\ entry = "search" => reply = [kind |-> "items", items |-> calls[2].items]

\* pipeline.search("cold weather gear", top_k=10, category_filter="medical",
\* synthesize=True, user_id="user-42") returned the plan made of two
\* retrieved items.
C14_Witness ==
  /\ entry = "search"
  /\ outcome = "returned"
  /\ request.synthesize
  /\ request.top_k = 10
  /\ request.category_filter = "medical"
  /\ request.user_id = "user-42"
  /\ Len(calls) = 3
  /\ Len(calls[2].items) = 2
  /\ reply.kind = "plan"
  /\ reply.plan.selected_items # <<>>

\* C15: if the synthesizer fails during a search with synthesize=true after
\* retrieval succeeded, the search degrades to raw retrieval: the caller still
\* receives the retrieved items instead of an error.
C15_SynthesisFailureDegradesToRetrieval ==
  (pc = "done" /\ Len(calls) = 3 /\ calls[3].op = "synthesize" /\ calls[3].raised)
    => /\ outcome = "returned"
       /\ IF entry = "search"
          THEN reply = [kind |-> "items", items |-> calls[2].items]
          ELSE /\ reply.kind = "SearchResponse"
               /\ Len(reply.raw_results) = Len(calls[2].items)
               /\ \A k \in 1..Len(calls[2].items) :
                    reply.raw_results[k].item_id = calls[2].items[k].item_id

\* -------------------------------------------------------- extract_batch
\* C19: extract_batch starts one extraction per image, all of them before
\* any has finished, waits for all of them and returns one outcome per image
\* in input order.  When one extraction fails the other outcomes are still
\* returned: the failure is reported for its item, not raised for the batch.
C19_BatchReturnsOneOutcomePerImage ==
  /\ pc # "gather" =>
       /\ Len(frame.tasks) = Len(request.image_sources)
       /\ \A i \in 1..Len(frame.tasks) :
            frame.tasks[i].image_source = request.image_sources[i]
  /\ pc = "done" =>
       /\ \A i \in 1..Len(frame.tasks) : frame.tasks[i].state # "running"
       /\ outcome = "returned"
       /\ Len(reply.contexts) = Len(request.image_sources)
       /\ \A i \in 1..Len(frame.tasks) :
            frame.tasks[i].state = "returned" =>
              reply.contexts[i] = frame.tasks[i].context

\* ------------------------------------------------- solve: the two lists
\* C27: whenever solve returns status 'optimal' or 'feasible', packed_items
\* and unpacked_items partition the input: every input item appears in
\* exactly one of them, in packed_items iff its packed quantity is >= 1, so
\* len(packed_items) + len(unpacked_items) == len(items), and both lists keep
\* the input order.
C27_PackedAndUnpackedPartitionInput ==
  (pc # "solve" /\ Succeeded) =>
    LET packed == result.packed_items
        packedAt == {packed[k].idx : k \in 1..Len(packed)}
        restAt == SelectSeq(Positions(items), LAMBDA i : i \notin packedAt)
    IN /\ Len(packed) + Len(result.unpacked_items) = Len(items)
       /\ \A k \in 1..Len(packed) :
            /\ packed[k].idx \in 1..Len(items)
            /\ packed[k].item = items[packed[k].idx]
            /\ packed[k].qty >= 1
       /\ \A j, k \in 1..Len(packed) : j < k => packed[j].idx < packed[k].idx
       /\ result.unpacked_items = [k \in 1..Len(restAt) |-> items[restAt[k]]]

\* Of two candidates the second is packed and the first is not.
C27_Witness ==
  /\ pc # "solve"
  /\ Succeeded
  /\ Len(items) = 2
  /\ Len(result.packed_items) = 1
  /\ result.packed_items[1].idx = 2
  /\ result.unpacked_items = <<items[1]>>
  /\ items[1] # items[2]

\* C28: for a non-empty item list, solve reports status 'infeasible' (with
\* the note 'Problem is infeasible ...') only when no assignment within the
\* variable bounds satisfies the weight, relaxed-minimum, maximum and pinned
\* constraints; a solver run that ends without a verdict (the time limit
\* reached before any solution was found) is not reported as infeasible.
C28_InfeasibleOnlyWithoutSolution ==
  (pc # "solve" /\ items # <<>> /\ result.status = "infeasible") =>
    /\ Solutions(cp) = {}
    /\ solver # "UNKNOWN"

\* C30: when the pack inside pack_and_explain returns status 'infeasible',
\* the synthesizer is not called and the MissionPlan returned has empty
\* selected_items, rejected_items and reasoning, and warnings equal to the
\* result's relaxed_constraints followed by one fixed advisory message.
C30_InfeasiblePackIsExplainedWithoutSynthesizer ==
  (entry = "pack_and_explain" /\ result.status = "infeasible") =>
    /\ synthCalls = 0
    /\ pc \in {"explain", "done"}
    /\ pc = "done" =>
         /\ outcome = "returned"
         /\ plan.selected_items = <<>>
         /\ plan.rejected_items = <<>>
         /\ plan.reasoning = <<>>
         /\ plan.warnings = result.relaxed_constraints \o <<AdvisoryNote>>

\* pack_and_explain returned for an infeasible pack whose result carries a
\* note besides 'Problem is infeasible ...'.
C30_Witness ==
  /\ entry = "pack_and_explain"
  /\ pc = "done"
  /\ outcome = "returned"
  /\ result.status = "infeasible"
  /\ Len(result.relaxed_constraints) >= 2
  /\ Len(plan.warnings) = Len(result.relaxed_constraints) + 1

\* ------------------------------------------------- ingest: failed stages
\* C29: if extraction or embedding raises during ingest, the exception
\* propagates to the caller, store.upsert is never called for that request
\* and the store's contents are unchanged (no upsert has returned); in every
\* ingest, upsert is called at most once.
C29_FailedIngestNeverUpserts ==
  /\ \A i \in 1..Len(request.image_sources) :
       LET cs == StageCalls(i)
           upserts == SelectSeq(cs, LAMBDA e : e.op = "upsert")
       IN /\ Len(upserts) <= 1
          /\ (\E n \in 1..Len(cs) : cs[n].op # "upsert" /\ cs[n].raised)
               => upserts = <<>>
  /\ (entry = "ingest" /\ calls # <<>> /\ calls[Len(calls)].raised) =>
       /\ pc = "done"
       /\ reply = NoReply
       /\ outcome = CASE calls[Len(calls)].op = "extract" -> "ExtractionError"
                      [] calls[Len(calls)].op = "embed_item" -> "EmbeddingError"
                      [] OTHER -> "StoreError"
       /\ calls[Len(calls)].op # "upsert" => UpsertedIds(calls) = <<>>

\* An ingest whose extraction returned and whose embedding raised.
C29_Witness ==
  /\ entry = "ingest"
  /\ pc = "done"
  /\ outcome = "EmbeddingError"
  /\ Len(calls) = 2
  /\ ~calls[1].raised
  /\ calls[2].raised

\* ------------------------------------------------ search: user scoping
\* C22: a search request that carries user_id is scoped to that user: the
\* user_id given in the POST /search body reaches the store as the user
\* filter of its search, so that the response holds only items owned by that
\* user.
C22_SearchRequestUserIdReachesStore ==
  entry = "search_items" =>
    \A n \in 1..Len(calls) :
      calls[n].op = "store_search" => calls[n].user_id = request.user_id

\* =================================================================
\* SupabaseVectorStore._infer_domain
\* =================================================================
\* A Python string is the sequence of its characters; None is the sequence
\* of the one token "None", which is no character.
MaxPieces == 2

NoneCategory == <<"None">>

Pieces ==
  {<<"t", "e", "c", "h">>, <<"T", "E", "C", "H">>, <<"F", "o", "o", "d">>,
   <<"m", "e", "d", "i", "c", "a", "l">>,
   <<"C", "l", "o", "t", "h", "i", "n", "g">>,
   <<"c", "a", "m", "p", "i", "n", "g">>,
   <<" ">>, <<"w", "e", "a", "r">>, <<"t", "e">>, <<"c", "h">>}

RECURSIVE Joined(_)
Joined(pieces) ==
  IF pieces = <<>> THEN <<>> ELSE Head(pieces) \o Joined(Tail(pieces))

Categories ==
  {NoneCategory} \cup
  {Joined(ps) : ps \in UNION {[1..n -> Pieces] : n \in 0..MaxPieces}}

\* str.lower() on one character
LowerChar(c) ==
  CASE c = "T" -> "t"
    [] c = "E" -> "e"
    [] c = "C" -> "c"
    [] c = "H" -> "h"
    [] c = "F" -> "f"
    [] OTHER -> c

Lower(s) == [i \in 1..Len(s) |-> LowerChar(s[i])]

\* keyword in category_lower
Occurs(keyword, s) ==
  \E i \in 1..(Len(s) - Len(keyword) + 1) :
    SubSeq(s, i, i + Len(keyword) - 1) = keyword

\* domain_map in the order of its literal: the keyword as characters and
\* the domain it maps to.
domain_map ==
  << [keyword |-> <<"c", "l", "o", "t", "h", "i", "n", "g">>, domain |-> "clothing"],
     [keyword |-> <<"m", "e", "d", "i", "c", "a", "l">>, domain |-> "medical"],
     [keyword |-> <<"t", "e", "c", "h">>, domain |-> "tech"],
     [keyword |-> <<"c", "a", "m", "p", "i", "n", "g">>, domain |-> "camping"],
     [keyword |-> <<"f", "o", "o", "d">>, domain |-> "food"] >>

\* (category or "")
OrEmpty(category) == IF category = NoneCategory THEN <<>> ELSE category

FirstHit(s) ==
  LET hits == {i \in 1..Len(domain_map) : Occurs(domain_map[i].keyword, s)}
  IN IF hits = {} THEN "general"
     ELSE domain_map[CHOOSE i \in hits : \A j \in hits : i <= j].domain

\* the function without .lower()
InferDomainCaseSensitive(category) == FirstHit(OrEmpty(category))

InferDomain(category) == FirstHit(Lower(OrEmpty(category)))

InferDomainInit ==
  /\ entry = "_infer_domain"
  /\ pc = "infer"
  /\ request \in {[kind |-> "infer", category |-> c] : c \in Categories}
  /\ frame = NoFrame
  /\ calls = <<>>
  /\ reply = NoReply
  /\ outcome = "pending"
  /\ embedder = "voyage"
  /\ arg = NoArg
  /\ items = <<>>
  /\ constraints = NoArg.object
  /\ cp = NoModel
  /\ solver = "none"
  /\ result = NoResult
  /\ plan = NoPlan
  /\ synthCalls = 0
  /\ synthItems = <<>>

InferDomainReturns ==
  /\ pc = "infer"
  /\ reply' = [kind |-> "domain", domain |-> InferDomain(request.category)]
  /\ outcome' = "returned"
  /\ pc' = "done"
  /\ UNCHANGED <<entry, embedder, request, frame, calls>>
  /\ UNCHANGED packVars

InferDomainNext == InferDomainReturns

SpecInferDomain == InferDomainInit /\ [][InferDomainNext]_vars

Domains == {"clothing", "medical", "tech", "camping", "food", "general"}

\* the category with every upper-case letter folded, written without the
\* model's Lower
Folded(category) ==
  IF category = NoneCategory THEN <<>>
  ELSE [i \in 1..Len(category) |->
          IF category[i] \in {"T", "E", "C", "H", "F"}
          THEN CHOOSE l \in {"t", "e", "c", "h", "f"} :
                 <<category[i], l>> \in {<<"T", "t">>, <<"E", "e">>, <<"C", "c">>,
                                         <<"H", "h">>, <<"F", "f">>}
          ELSE category[i]]

\* C25: _infer_domain returns for every input (a string, the empty string
\* or None) one of the six domains; a domain other than general is one whose
\* keyword occurs in the lower-cased category, general is returned exactly
\* when no keyword occurs, and the answer does not depend on letter case.
C25_InferDomainIsTotalAndCaseInsensitive ==
  (entry = "_infer_domain" /\ pc = "done") =>
    LET cat == Folded(request.category)
        kws == {i \in 1..Len(domain_map) : Occurs(domain_map[i].keyword, cat)}
    IN /\ reply.kind = "domain"
       /\ reply.domain \in Domains
       /\ (kws = {}) <=> (reply.domain = "general")
       /\ kws # {} => \E i \in kws : domain_map[i].domain = reply.domain
       /\ \A other \in Categories :
            Folded(other) = cat => InferDomain(other) = reply.domain

\* an upper-case category holding a keyword has been mapped to its domain
C25_Witness ==
  /\ entry = "_infer_domain"
  /\ pc = "done"
  /\ request.category = <<"T", "E", "C", "H", "F", "o", "o", "d">>
  /\ reply.domain = "tech"

\* =================================================================
\* KnapsackOptimizer.retrieved_to_packable
\* =================================================================
\* An Optional[float] is the set of at most one weight (in 1/100 g); an
\* Optional[dict] is a record: given says whether it is not None, map is the
\* dict.
StoredWeights == {{}, {0}, {250 * GramParts}}

\* weight_estimate of the context: "None" is None
WeightEstimates == {"None", "Heavy", "bulky"}

StoredItem(id, weight, estimate) ==
  [item_id |-> id, score |-> Catalog[id].similarity_score, weight_grams |-> weight,
   context |-> [name |-> IF id = "a" THEN "Trauma Bandage" ELSE "Rain Jacket",
                inferred_category |-> Catalog[id].category,
                semantic_tags |-> Catalog[id].semantic_tags,
                weight_estimate |-> estimate]]

StoredLists ==
  {<<>>}
  \cup {<<StoredItem(id, w, est)>> :
          id \in ItemIds, w \in StoredWeights, est \in WeightEstimates}
  \cup {<<StoredItem(id, w, est), StoredItem(CHOOSE o \in ItemIds : o # id, v, est)>> :
          id \in ItemIds, w \in StoredWeights, v \in StoredWeights,
          est \in WeightEstimates}

NoDict == [given |-> FALSE, map |-> <<>>]

Dict(map) == [given |-> TRUE, map |-> map]

Inventories ==
  {NoDict, Dict(<<>>), Dict([id \in {"a"} |-> 0]), Dict([id \in {"a"} |-> MaxQty]),
   Dict([id \in {"b"} |-> MaxQty])}

WeightOverrides ==
  {NoDict, Dict(<<>>), Dict([id \in {"a"} |-> 0]),
   Dict([id \in {"a"} |-> 999 * GramParts])}

\* str.lower() on the weight words
LowerWord(w) == IF w = "Heavy" THEN "heavy" ELSE w

WEIGHT_ESTIMATES_GRAMS ==
  [w \in {"ultralight", "light", "medium", "heavy"} |->
     CASE w = "ultralight" -> 100 * GramParts
       [] w = "light" -> 300 * GramParts
       [] w = "medium" -> 700 * GramParts
       [] w = "heavy" -> 1500 * GramParts]

estimate_weight(item) ==
  LET estimate == LowerWord(IF item.context.weight_estimate \in {"None", ""}
                            THEN "medium" ELSE item.context.weight_estimate)
  IN IF estimate \in DOMAIN WEIGHT_ESTIMATES_GRAMS
     THEN WEIGHT_ESTIMATES_GRAMS[estimate] ELSE 500 * GramParts

\* dict truthiness: None and the empty dict are false
Truthy(dict) == dict.given /\ DOMAIN dict.map # {}

\* x or y on Optional[float]: None and 0.0 are false
OrElse(x, y) == IF x = {} \/ x = {0} THEN y ELSE x

\* dict.get(key) with None for a missing key
Get(dict, key) == IF key \in DOMAIN dict.map THEN {dict.map[key]} ELSE {}

PackableOf(item, inventory, weight_overrides) ==
  LET override == IF Truthy(weight_overrides)
                  THEN Get(weight_overrides, item.item_id) ELSE {}
      weight == OrElse(OrElse(override, item.weight_grams), {estimate_weight(item)})
      qty == IF Truthy(inventory)
             THEN IF item.item_id \in DOMAIN inventory.map
                  THEN inventory.map[item.item_id] ELSE 1
             ELSE 1
  IN [item_id |-> item.item_id,
      name |-> item.context.name,
      similarity_score |-> item.score,
      weight_grams |-> CHOOSE w \in weight : TRUE,
      quantity_owned |-> qty,
      category |-> item.context.inferred_category,
      semantic_tags |-> item.context.semantic_tags]

retrieved_to_packable(its, inventory, weight_overrides) ==
  [k \in 1..Len(its) |-> PackableOf(its[k], inventory, weight_overrides)]

ConvertInit ==
  /\ entry = "retrieved_to_packable"
  /\ pc = "convert"
  /\ request \in {[kind |-> "convert", items |-> its, inventory |-> inv,
                   weight_overrides |-> wo] :
                    its \in StoredLists, inv \in Inventories, wo \in WeightOverrides}
  /\ frame = NoFrame
  /\ calls = <<>>
  /\ reply = NoReply
  /\ outcome = "pending"
  /\ embedder = "voyage"
  /\ arg = NoArg
  /\ items = <<>>
  /\ constraints = NoArg.object
  /\ cp = NoModel
  /\ solver = "none"
  /\ result = NoResult
  /\ plan = NoPlan
  /\ synthCalls = 0
  /\ synthItems = <<>>

\* return packable
ConvertReturns ==
  /\ pc = "convert"
  /\ reply' = [kind |-> "packable",
               packable |-> retrieved_to_packable(request.items, request.inventory,
                                                  request.weight_overrides)]
  /\ outcome' = "returned"
  /\ pc' = "done"
  /\ UNCHANGED <<entry, embedder, request, frame, calls>>
  /\ UNCHANGED packVars

ConvertNext == ConvertReturns

SpecConvert == ConvertInit /\ [][ConvertNext]_vars

\* C23: retrieved_to_packable returns one PackableItem per RetrievedItem in
\* the same order; its weight_grams is the weight_overrides entry for its id
\* when one is given, otherwise the stored weight_grams when present,
\* otherwise estimate_weight of the item; its quantity_owned is the
\* inventory entry for its id when one is given, otherwise 1; category and
\* semantic_tags are those of the context.
C23_PackableTakesOverrideThenStoredThenEstimate ==
  (entry = "retrieved_to_packable" /\ pc = "done") =>
    /\ Len(reply.packable) = Len(request.items)
    /\ \A k \in 1..Len(request.items) :
         LET item == request.items[k]
             p == reply.packable[k]
             wo == request.weight_overrides
             inv == request.inventory
         IN /\ p.item_id = item.item_id
            /\ p.weight_grams =
                 IF wo.given /\ item.item_id \in DOMAIN wo.map
                 THEN wo.map[item.item_id]
                 ELSE IF item.weight_grams # {}
                      THEN CHOOSE w \in item.weight_grams : TRUE
                      ELSE estimate_weight(item)
            /\ p.quantity_owned =
                 IF inv.given /\ item.item_id \in DOMAIN inv.map
                 THEN inv.map[item.item_id] ELSE 1
            /\ p.category = item.context.inferred_category
            /\ p.semantic_tags = item.context.semantic_tags

\* =================================================================
\* ContextExtractor.extract
\* =================================================================
\* A JSON string is the sequence of its characters; a key that is missing
\* and a null value are the one-token sequences Missing and Null.
NameCap == 80

Missing == <<"missing">>

Null == <<"null">>

Spaces(n) == [i \in 1..n |-> " "]

Text(n) == [i \in 1..n |-> "x"]

UnnamedItem == <<"U", "n", "n", "a", "m", "e", "d", " ", "i", "t", "e", "m">>

JsonNames == {Missing, Null, <<>>, Spaces(2), Text(3)}

JsonSummaries ==
  {Missing, Null, <<>>, Spaces(3), Text(5), Text(NameCap + 5),
   Spaces(1) \o Text(NameCap + 5)}

JsonCategories == {Missing, Text(4)}

\* message.content: None, whitespace, text that is no JSON, a JSON list, or
\* a JSON object with the keys the extraction reads
Contents ==
  {[kind |-> k, name |-> Missing, utility_summary |-> Missing,
    inferred_category |-> Missing] : k \in {"none", "blank", "invalid", "list"}}
  \cup {[kind |-> "object", name |-> n, utility_summary |-> s,
         inferred_category |-> c] :
          n \in JsonNames, s \in JsonSummaries, c \in JsonCategories}

ExtractSources == {"bytes", "url", "path", "missing_path"}

\* not x for a value of data.get(key)
Falsy(x) == x \in {Missing, Null, <<>>}

\* not str(x).strip() for a string x
Stripped(x) == \A i \in 1..Len(x) : x[i] = " "

\* s[:n]
Take(s, n) == SubSeq(s, 1, IF Len(s) < n THEN Len(s) ELSE n)

RepairedName(data) ==
  IF Falsy(data.name) \/ Stripped(data.name)
  THEN Take(IF Falsy(data.utility_summary) THEN UnnamedItem
            ELSE data.utility_summary, NameCap)
  ELSE data.name

\* ItemContext(**data): name, inferred_category and utility_summary are
\* required strings
Validates(data) ==
  /\ data.name \notin {Missing, Null}
  /\ data.inferred_category \notin {Missing, Null}
  /\ data.utility_summary \notin {Missing, Null}

ExtractInit ==
  /\ entry = "extract"
  /\ pc = "prepare"
  /\ request \in {[kind |-> "extract", image_source |-> src] : src \in ExtractSources}
  /\ frame = NoFrame
  /\ calls = <<>>
  /\ reply = NoReply
  /\ outcome = "pending"
  /\ embedder = "voyage"
  /\ arg = NoArg
  /\ items = <<>>
  /\ constraints = NoArg.object
  /\ cp = NoModel
  /\ solver = "none"
  /\ result = NoResult
  /\ plan = NoPlan
  /\ synthCalls = 0
  /\ synthItems = <<>>

ExtractRaised(exception) ==
  /\ reply' = [kind |-> "raised", exception |-> exception]
  /\ outcome' = "raised"
  /\ pc' = "done"

\* image_content = self._prepare_image(image_source)
PrepareImage ==
  /\ entry = "extract"
  /\ pc = "prepare"
  /\ request.image_source # "missing_path"
  /\ pc' = "create"
  /\ UNCHANGED <<entry, embedder, request, frame, calls, reply, outcome>>
  /\ UNCHANGED packVars

PrepareImageRaises ==
  /\ entry = "extract"
  /\ pc = "prepare"
  /\ request.image_source = "missing_path"
  /\ ExtractRaised("FileNotFoundError")
  /\ UNCHANGED <<entry, embedder, request, frame, calls>>
  /\ UNCHANGED packVars

\* response = await self.client.chat.completions.create(...)
CreateReturns ==
  /\ entry = "extract"
  /\ pc = "create"
  /\ \E content \in Contents :
       frame' = [kind |-> "extract", content |-> content]
  /\ pc' = "content"
  /\ UNCHANGED <<entry, embedder, request, calls, reply, outcome>>
  /\ UNCHANGED packVars

CreateRaises ==
  /\ entry = "extract"
  /\ pc = "create"
  /\ ExtractRaised("APIError")
  /\ UNCHANGED <<entry, embedder, request, frame, calls>>
  /\ UNCHANGED packVars

\* if not raw.strip(): raise ValueError(...)
EmptyContent ==
  /\ entry = "extract"
  /\ pc = "content"
  /\ frame.content.kind \in {"none", "blank"}
  /\ ExtractRaised("ValueError")
  /\ UNCHANGED <<entry, embedder, request, frame, calls>>
  /\ UNCHANGED packVars

\* json.loads raises, data.get raises on a list, or ItemContext(**data)
\* fails validation: the except branch raises ValueError
ParseRaises ==
  /\ entry = "extract"
  /\ pc = "content"
  /\ \/ frame.content.kind \in {"invalid", "list"}
     \/ /\ frame.content.kind = "object"
        /\ ~Validates([frame.content EXCEPT !.name = RepairedName(frame.content)])
  /\ ExtractRaised("ValueError")
  /\ UNCHANGED <<entry, embedder, request, frame, calls>>
  /\ UNCHANGED packVars

\* return ItemContext(**data)
ParseReturnsContext ==
  /\ entry = "extract"
  /\ pc = "content"
  /\ frame.content.kind = "object"
  /\ LET data == [frame.content EXCEPT !.name = RepairedName(frame.content)]
     IN /\ Validates(data)
        /\ reply' = [kind |-> "context", name |-> data.name,
                     utility_summary |-> data.utility_summary,
                     inferred_category |-> data.inferred_category]
  /\ outcome' = "returned"
  /\ pc' = "done"
  /\ UNCHANGED <<entry, embedder, request, frame, calls>>
  /\ UNCHANGED packVars

ExtractNext ==
  \/ PrepareImage
  \/ PrepareImageRaises
  \/ CreateReturns
  \/ CreateRaises
  \/ EmptyContent
  \/ ParseRaises
  \/ ParseReturnsContext

SpecExtract == ExtractInit /\ [][ExtractNext]_vars

\* C24: every ItemContext that extract returns has a non-blank name; when
\* the name of the model's JSON is missing, empty or whitespace-only, the
\* returned name is the first 80 characters of utility_summary, or
\* "Unnamed item" when utility_summary is empty.
C24_ReturnedContextHasNonBlankName ==
  (entry = "extract" /\ outcome = "returned") =>
    /\ reply.name # <<>>
    /\ \E i \in 1..Len(reply.name) : reply.name[i] # " "
    /\ LET given == frame.content.name
           summary == frame.content.utility_summary
       IN (given \in {Missing, Null} \/ \A i \in 1..Len(given) : given[i] = " ") =>
            reply.name = IF summary = <<>> THEN UnnamedItem
                         ELSE SubSeq(summary, 1, IF Len(summary) < NameCap
                                                 THEN Len(summary) ELSE NameCap)

\* =================================================================
\* POST /pack/multi: pack_multi_container
\* =================================================================
\* The rows of storage_containers that the query returns.  quantity and
\* tare_weight_grams are the set of at most one value: a row may lack the
\* key, and c.get gives the default then.
MaxUnits == 2

ContainerIds == {"c1", "c2"}

ContainerRow(id, quantity, max, tare) ==
  [id |-> id, name |-> IF id = "c1" THEN "Duffel" ELSE "Crate",
   quantity |-> quantity, max_weight_grams |-> max, tare_weight_grams |-> tare]

ContainerRowsOf(id) ==
  {ContainerRow(id, q, max, tare) :
     q \in {{}} \cup {{n} : n \in 1..MaxUnits},
     max \in {1000 * GramParts, 1500 * GramParts},
     tare \in {{}, {400 * GramParts}, {1500 * GramParts}}}

ContainerRowLists ==
  {<<>>}
  \cup {<<r>> : r \in ContainerRowsOf("c1")}
  \cup {<<r, s>> : r \in ContainerRowsOf("c1"), s \in ContainerRowsOf("c2")}

\* the candidates that the search of pack_multi retrieves: 600 g each
Candidates ==
  << [item_id |-> "a", weight_grams |-> 600 * GramParts, quantity_owned |-> 1],
     [item_id |-> "b", weight_grams |-> 600 * GramParts, quantity_owned |-> 1] >>

\* c.get(key, default)
GetOr(option, default) == IF option = {} THEN default ELSE CHOOSE v \in option : TRUE

EffectiveCapacity(c) == c.max_weight_grams - GetOr(c.tare_weight_grams, 0)

ContainerSpec(c, unit) ==
  [container_id |-> c.id,
   name |-> IF GetOr(c.quantity, 1) = 1 THEN c.name
            ELSE c.name \o " #" \o ToString(unit + 1),
   max_weight_grams |-> EffectiveCapacity(c)]

\* the specs of one row: for unit in range(qty)
UnitsOf(c) ==
  IF EffectiveCapacity(c) <= 0 THEN <<>>
  ELSE [u \in 1..GetOr(c.quantity, 1) |-> ContainerSpec(c, u - 1)]

RECURSIVE ContainerSpecsUnexpanded(_)
\* one spec for a row, whatever its quantity
ContainerSpecsUnexpanded(rows) ==
  IF rows = <<>> THEN <<>>
  ELSE (IF EffectiveCapacity(Head(rows)) <= 0 THEN <<>>
        ELSE <<ContainerSpec(Head(rows), 0)>>)
       \o ContainerSpecsUnexpanded(Tail(rows))

RECURSIVE ContainerSpecs(_)
ContainerSpecs(rows) ==
  IF rows = <<>> THEN <<>> ELSE UnitsOf(Head(rows)) \o ContainerSpecs(Tail(rows))

\* solveMulti: x[i][b] is the quantity of candidate i placed in bin b
BinWeight(x, b) ==
  LET RECURSIVE Sum(_)
      Sum(i) == IF i = 0 THEN 0
                ELSE x[i][b] * Candidates[i].weight_grams + Sum(i - 1)
  IN Sum(Len(Candidates))

Placed(x, i, bins) ==
  LET RECURSIVE Sum(_)
      Sum(b) == IF b = 0 THEN 0 ELSE x[i][b] + Sum(b - 1)
  IN Sum(bins)

MultiSolutions(specs) ==
  {x \in [1..Len(Candidates) -> [1..Len(specs) -> 0..1]] :
     /\ \A b \in 1..Len(specs) : BinWeight(x, b) <= specs[b].max_weight_grams
     /\ \A i \in 1..Len(Candidates) :
          Placed(x, i, Len(specs)) <= Candidates[i].quantity_owned}

ContainerResult(specs, x, b) ==
  [container_id |-> specs[b].container_id,
   container_name |-> specs[b].name,
   max_weight_grams |-> specs[b].max_weight_grams,
   packed_items |-> {<<Candidates[i].item_id, x[i][b]>> :
                       i \in {j \in 1..Len(Candidates) : x[j][b] > 0}},
   total_weight_grams |-> BinWeight(x, b)]

MultiPackingResult(specs, x) ==
  [container_results |-> [b \in 1..Len(specs) |-> ContainerResult(specs, x, b)],
   unpacked_items |-> {Candidates[i].item_id :
                         i \in {j \in 1..Len(Candidates) :
                                  Placed(x, j, Len(specs)) = 0}}]

PackMultiInit ==
  /\ entry = "pack_multi_container"
  /\ pc = "fetch"
  /\ request \in {[kind |-> "pack_multi", rows |-> rows, explain |-> ex] :
                    rows \in ContainerRowLists, ex \in BOOLEAN}
  /\ frame = NoFrame
  /\ calls = <<>>
  /\ reply = NoReply
  /\ outcome = "pending"
  /\ embedder = "voyage"
  /\ arg = NoArg
  /\ items = <<>>
  /\ constraints = NoArg.object
  /\ cp = NoModel
  /\ solver = "none"
  /\ result = NoResult
  /\ plan = NoPlan
  /\ synthCalls = 0
  /\ synthItems = <<>>

HttpError(status_code) ==
  /\ reply' = [kind |-> "http_error", status_code |-> status_code]
  /\ outcome' = "raised"
  /\ pc' = "done"

\* if not containers_resp.data: raise HTTPException(404)
NoContainers ==
  /\ entry = "pack_multi_container"
  /\ pc = "fetch"
  /\ request.rows = <<>>
  /\ HttpError(404)
  /\ UNCHANGED <<entry, embedder, request, frame, calls>>
  /\ UNCHANGED packVars

\* 2. Build ContainerSpec list
BuildSpecs ==
  /\ entry = "pack_multi_container"
  /\ pc = "fetch"
  /\ request.rows # <<>>
  /\ ContainerSpecs(request.rows) # <<>>
  /\ frame' = [kind |-> "pack_multi", container_specs |-> ContainerSpecs(request.rows)]
  /\ pc' = "pack"
  /\ UNCHANGED <<entry, embedder, request, calls, reply, outcome>>
  /\ UNCHANGED packVars

\* if not container_specs: raise HTTPException(400)
NoCapacity ==
  /\ entry = "pack_multi_container"
  /\ pc = "fetch"
  /\ request.rows # <<>>
  /\ ContainerSpecs(request.rows) = <<>>
  /\ HttpError(400)
  /\ UNCHANGED <<entry, embedder, request, frame, calls>>
  /\ UNCHANGED packVars

\* 4./5. pipeline.pack_multi or pack_multi_and_explain returns and the
\* response is built from its result
PackMultiReturns ==
  /\ entry = "pack_multi_container"
  /\ pc = "pack"
  /\ \E x \in MultiSolutions(frame.container_specs) :
       LET res == MultiPackingResult(frame.container_specs, x)
       IN reply' = [kind |-> "multi_pack",
                    containers |-> res.container_results,
                    unpacked_items |-> res.unpacked_items,
                    mission_summary |-> IF request.explain THEN "summary" ELSE "None"]
  /\ outcome' = "returned"
  /\ pc' = "done"
  /\ UNCHANGED <<entry, embedder, request, frame, calls>>
  /\ UNCHANGED packVars

\* except Exception: raise HTTPException(500)
PackMultiRaises ==
  /\ entry = "pack_multi_container"
  /\ pc = "pack"
  /\ HttpError(500)
  /\ UNCHANGED <<entry, embedder, request, frame, calls>>
  /\ UNCHANGED packVars

PackMultiNext ==
  \/ NoContainers
  \/ BuildSpecs
  \/ NoCapacity
  \/ PackMultiReturns
  \/ PackMultiRaises

SpecPackMulti == PackMultiInit /\ [][PackMultiNext]_vars

\* the positions of the specs made from the container row c
SpecsOfRow(c) ==
  {b \in 1..Len(frame.container_specs) : frame.container_specs[b].container_id = c.id}

\* C26: in a multi-container pack a container row with quantity q and
\* positive effective capacity (max_weight_grams minus tare_weight_grams)
\* is expanded into q container specs, each capped at that capacity, a row
\* with effective capacity <= 0 gives no spec, and in the result the weight
\* of the items assigned to a spec is at most the spec's capacity.
C26_ContainersAreExpandedAndCapped ==
  (entry = "pack_multi_container" /\ frame # NoFrame) =>
    /\ \A k \in 1..Len(request.rows) :
         LET c == request.rows[k]
             q == IF c.quantity = {} THEN 1 ELSE CHOOSE n \in c.quantity : TRUE
             tare == IF c.tare_weight_grams = {} THEN 0
                     ELSE CHOOSE t \in c.tare_weight_grams : TRUE
             capacity == c.max_weight_grams - tare
         IN /\ capacity > 0 =>
                 /\ Cardinality(SpecsOfRow(c)) = q
                 /\ \A b \in SpecsOfRow(c) :
                      frame.container_specs[b].max_weight_grams = capacity
            /\ capacity <= 0 => SpecsOfRow(c) = {}
    /\ outcome = "returned" =>
         /\ Len(reply.containers) = Len(frame.container_specs)
         /\ \A b \in 1..Len(reply.containers) :
              LET packed == reply.containers[b].packed_items
                  weight == [id \in {"a", "b"} |-> 600 * GramParts]
                  total == IF packed = {} THEN 0
                           ELSE IF Cardinality(packed) = 1
                                THEN (CHOOSE p \in packed : TRUE)[2] * 600 * GramParts
                                ELSE LET p == CHOOSE p \in packed : TRUE
                                         r == CHOOSE r \in packed : r # p
                                     IN p[2] * weight[p[1]] + r[2] * weight[r[1]]
              IN /\ reply.containers[b].container_id =
                      frame.container_specs[b].container_id
                 /\ total <= frame.container_specs[b].max_weight_grams

\* a row of quantity 2 next to a row whose tare eats its capacity, and one
\* candidate packed into each of the two units
C26_Witness ==
  /\ entry = "pack_multi_container"
  /\ outcome = "returned"
  /\ Len(request.rows) = 2
  /\ request.rows[1].quantity = {2}
  /\ request.rows[1].max_weight_grams = 1000 * GramParts
  /\ request.rows[2].tare_weight_grams = {1500 * GramParts}
  /\ Len(reply.containers) = 2
  /\ \A b \in 1..2 : Cardinality(reply.containers[b].packed_items) = 1

\* =================================================================
\* The server process: one asyncio event loop and the requests in flight
\* =================================================================
\* uvicorn runs the async route handlers as tasks of one event loop.  A
\* task holds the loop's thread from the moment it is resumed until it
\* reaches an await that has to wait, or returns.
MaxRequests == 2

RequestKinds == {"pack", "search", "ingest"}

\* The steps of a handler: "await" is an awaited call that waits for I/O
\* (the embedder's run_in_executor, the vision model's HTTP call), "solve"
\* is the plain call self.optimizer.solve(packable, constraints), and
\* "respond" builds and returns the response.
Program(kind) ==
  CASE kind = "pack" -> <<"await", "solve", "respond">>
    [] kind = "search" -> <<"await", "respond">>
    [] kind = "ingest" -> <<"await", "await", "respond">>

Task(at, status) == [at |-> at, status |-> status]

ServerInit ==
  /\ entry = "server"
  /\ pc = "serve"
  /\ request \in {[kind |-> "server", kinds |-> ks] :
                    ks \in [1..MaxRequests -> RequestKinds]}
  /\ frame = [kind |-> "loop", running |-> 0,
              tasks |-> [r \in 1..MaxRequests |-> Task(1, "ready")]]
  /\ calls = <<>>
  /\ reply = NoReply
  /\ outcome = "pending"
  /\ embedder = "voyage"
  /\ arg = NoArg
  /\ items = <<>>
  /\ constraints = NoArg.object
  /\ cp = NoModel
  /\ solver = "none"
  /\ result = NoResult
  /\ plan = NoPlan
  /\ synthCalls = 0
  /\ synthItems = <<>>

StepOf(r) == Program(request.kinds[r])[frame.tasks[r].at]

ServerStep(r, task, running) ==
  /\ frame' = [frame EXCEPT !.tasks[r] = task, !.running = running]
  /\ UNCHANGED <<entry, pc, outcome, embedder, request, calls, reply>>
  /\ UNCHANGED packVars

\* the loop resumes a ready task: only an idle loop runs a callback
Dispatch ==
  \E r \in 1..MaxRequests :
    /\ entry = "server"
    /\ frame.running = 0
    /\ frame.tasks[r].status = "ready"
    /\ ServerStep(r, Task(frame.tasks[r].at, "running"), r)

\* the running task reaches an await and gives the loop back
Await ==
  \E r \in 1..MaxRequests :
    /\ entry = "server"
    /\ frame.running = r
    /\ StepOf(r) = "await"
    /\ ServerStep(r, Task(frame.tasks[r].at, "waiting"), 0)

\* the awaited I/O completes
IoDone ==
  \E r \in 1..MaxRequests :
    /\ entry = "server"
    /\ frame.tasks[r].status = "waiting"
    /\ ServerStep(r, Task(frame.tasks[r].at + 1, "ready"), frame.running)

\* result = self.optimizer.solve(packable, constraints): a plain call on
\* the loop's thread
SolveBegins ==
  \E r \in 1..MaxRequests :
    /\ entry = "server"
    /\ frame.running = r
    /\ frame.tasks[r].status = "running"
    /\ StepOf(r) = "solve"
    /\ ServerStep(r, Task(frame.tasks[r].at, "solving"), r)

SolveEnds ==
  \E r \in 1..MaxRequests :
    /\ entry = "server"
    /\ frame.tasks[r].status = "solving"
    /\ ServerStep(r, Task(frame.tasks[r].at + 1, "running"), frame.running)

\* the handler returns its response
Respond ==
  \E r \in 1..MaxRequests :
    /\ entry = "server"
    /\ frame.running = r
    /\ frame.tasks[r].status = "running"
    /\ StepOf(r) = "respond"
    /\ ServerStep(r, Task(frame.tasks[r].at, "done"), 0)

ServerNext ==
  \/ Dispatch
  \/ Await
  \/ IoDone
  \/ SolveBegins
  \/ SolveEnds
  \/ Respond

SpecServer == ServerInit /\ [][ServerNext]_vars

\* C21: while one pack request is inside KnapsackOptimizer.solve, every
\* other request in flight that is ready to run can take its next step
\* before that solve returns.
C21_SolveDoesNotStallOtherRequests ==
  entry = "server" =>
    \A p, o \in 1..MaxRequests :
      (frame.tasks[p].status = "solving" /\ frame.tasks[o].status = "ready")
        => ENABLED (Dispatch /\ frame'.running = o)

====
